---- MODULE Spec2Model ----
(***************************************************************************)
(* One Piece Character Tracker: the entity store (database.py) and the     *)
(* chronological processing controllers built on it.                       *)
(***************************************************************************)
EXTENDS Integers, Sequences, FiniteSets, TLC

(***************************************************************************)
(* Bounds of the model and the inputs drawn by the actions.                *)
(***************************************************************************)
\* Chapters are numbered 1..MaxChapter.
MaxChapter == 3
\* Number of store API calls in one behaviour of the store specifications.
MaxCalls == 2
\* Number of chapter attempts made by the controllers in one behaviour.
MaxAttempts == 2

Chapters == 1..MaxChapter
\* chapter_number arguments of the store API calls.
ChapterArgs == {1, 2}
Urls == {"/wiki/luffy", "/wiki/zoro"}
\* wiki_url arguments a caller may pass, the empty string included.
UrlArgs == Urls \cup {""}
NameArgs == {"Luffy", ""}
\* Starting values a caller or the oracle may propose (unvalidated input).
StartingValues == {-5, 100}
\* Value changes a caller or the oracle may propose (unvalidated input).
ValueChanges == {-150, 25}
\* new_value arguments of add_character_change.
NewValueArgs == {125}
\* first_appearance arguments of add_character.
FirstAppearanceArgs == {0, 1}

VARIABLES
    characters,         \* table characters: wiki_url -> row
    character_history,  \* table character_history: set of rows
    chapters,           \* table chapters: number -> "absent" | "unprocessed" | "processed"
    market_snapshots,   \* table market_snapshots: set of rows, one per chapter_number
    last_call,          \* the last store API call and the value it returned
    ncalls,             \* number of store API calls made so far
    progress_file,      \* batch_logs/progress.json of BatchProcessor
    progress_data,      \* processing_progress.json of ProgressTracker (main.py)
    proc,               \* the running controller process (lost when it is killed)
    nattempts,          \* number of chapter attempts made so far by all runs
    stock_characters,   \* DataGenerator's store: href -> saved character
    market_events,      \* DataGenerator's store: the saved market events, in order
    processed_chapters, \* DataGenerator's store: the chapters marked processed
    offline_call,       \* the last DataGenerator.process_chapter call and what it saw
    fn_input,           \* the arguments of the function under study
    fn_output           \* the value it returned

store_vars == <<characters, character_history, chapters, market_snapshots>>
ctl_vars == <<progress_file, progress_data, proc, nattempts>>
offline_vars == <<stock_characters, market_events, processed_chapters, offline_call>>
fn_vars == <<fn_input, fn_output>>
aux_vars == <<offline_vars, fn_vars>>
vars == <<characters, character_history, chapters, market_snapshots, last_call, ncalls,
          progress_file, progress_data, proc, nattempts, stock_characters, market_events,
          processed_chapters, offline_call, fn_input, fn_output>>

(***************************************************************************)
(* Rows and inputs.                                                        *)
(***************************************************************************)
\* A row of table characters. starting_value is the value the row was
\* inserted with; the table itself only keeps current_value.
CharacterRow(name, starting_value, first_appearance) ==
    [name |-> name, current_value |-> starting_value,
     first_appearance |-> first_appearance, starting_value |-> starting_value]

\* A row of table character_history.
HistoryRow(wiki_url, chapter_number, value_change, new_value, reasoning) ==
    [character_wiki_url |-> wiki_url, chapter_number |-> chapter_number,
     value_change |-> value_change, new_value |-> new_value, reasoning |-> reasoning]

\* dataclass CharacterChange. is_number is FALSE for a value_change that is
\* not a number (None, a string): adding it to current_value raises.
CharacterChange(wiki_url, value_change, is_number, reasoning) ==
    [wiki_url |-> wiki_url, value_change |-> value_change, is_number |-> is_number,
     reasoning |-> reasoning]

\* An entry of the new_characters list.
NewCharacter(wiki_url, name, starting_value) ==
    [wiki_url |-> wiki_url, name |-> name, starting_value |-> starting_value]

\* UNIQUE(character_wiki_url, chapter_number): is the key already used?
HasHistoryRow(hist, wiki_url, chapter_number) ==
    \E r \in hist : r.character_wiki_url = wiki_url /\ r.chapter_number = chapter_number

\* Sequences over S of length at most n.
SeqUpTo(S, n) == UNION {[1..k -> S] : k \in 0..n}

\* get_character_history: the history rows of one character.
HistoryOf(hist, wiki_url) == {r \in hist : r.character_wiki_url = wiki_url}

\* The sum of value_change over a set of history rows.
RECURSIVE SumValueChange(_)
SumValueChange(rows) ==
    IF rows = {} THEN 0
    ELSE LET r == CHOOSE x \in rows : TRUE
         IN r.value_change + SumValueChange(rows \ {r})

\* The set of wiki_urls named by a list of changes.
UrlsOf(changes) == {changes[i].wiki_url : i \in 1..Len(changes)}

(***************************************************************************)
(* DatabaseManager.add_character                                           *)
(***************************************************************************)
\* add_character without the PRIMARY KEY and starting_value checks.
add_character_unchecked(chars, wiki_url, name, starting_value, first_appearance) ==
    /\ wiki_url # ""
    /\ name # ""
    /\ first_appearance > 0

add_character_ok(chars, wiki_url, name, starting_value, first_appearance) ==
    /\ wiki_url # ""
    /\ name # ""
    /\ starting_value > 0
    /\ first_appearance > 0
    /\ wiki_url \notin DOMAIN chars      \* PRIMARY KEY: sqlite3.IntegrityError

add_character(wiki_url, name, starting_value, first_appearance) ==
    LET ok == add_character_ok(characters, wiki_url, name, starting_value, first_appearance)
    IN /\ characters' = IF ok
                        THEN characters @@ (wiki_url :> CharacterRow(name, starting_value, first_appearance))
                        ELSE characters
       /\ last_call' = [op |-> "add_character", chapter_number |-> first_appearance,
                        urls |-> {wiki_url}, result |-> ok,
                        name |-> name, starting_value |-> starting_value]
       /\ UNCHANGED <<character_history, chapters, market_snapshots>>

(***************************************************************************)
(* DatabaseManager.update_character_value                                  *)
(***************************************************************************)
update_character_value(wiki_url, new_value) ==
    LET found == wiki_url \in DOMAIN characters        \* cursor.rowcount > 0
    IN /\ characters' = IF found
                        THEN [characters EXCEPT ![wiki_url].current_value = new_value]
                        ELSE characters
       /\ last_call' = [op |-> "update_character_value", chapter_number |-> 0,
                        urls |-> {wiki_url}, result |-> found]
       /\ UNCHANGED <<character_history, chapters, market_snapshots>>

(***************************************************************************)
(* DatabaseManager.add_character_change                                    *)
(***************************************************************************)
add_character_change(wiki_url, chapter_number, value_change, new_value, reasoning) ==
    LET ok == ~HasHistoryRow(character_history, wiki_url, chapter_number)
    IN /\ character_history' = IF ok
                               THEN character_history \cup
                                    {HistoryRow(wiki_url, chapter_number, value_change, new_value, reasoning)}
                               ELSE character_history
       /\ last_call' = [op |-> "add_character_change", chapter_number |-> chapter_number,
                        urls |-> {wiki_url}, result |-> ok]
       /\ UNCHANGED <<characters, chapters, market_snapshots>>

(***************************************************************************)
(* DatabaseManager.process_character_changes                               *)
(***************************************************************************)
\* The loop over new_characters as INSERT OR REPLACE: an existing row is
\* overwritten.
RECURSIVE InsertOrReplaceCharacters(_, _, _)
InsertOrReplaceCharacters(chars, new_characters, chapter_number) ==
    IF new_characters = <<>> THEN chars
    ELSE LET new_char == Head(new_characters)
             row == CharacterRow(new_char.name, new_char.starting_value, chapter_number)
             replaced == [u \in DOMAIN chars \cup {new_char.wiki_url} |->
                             IF u = new_char.wiki_url THEN row ELSE chars[u]]
         IN InsertOrReplaceCharacters(replaced, Tail(new_characters), chapter_number)

\* The loop over new_characters: INSERT, an existing wiki_url is skipped.
RECURSIVE InsertNewCharacters(_, _, _)
InsertNewCharacters(chars, new_characters, chapter_number) ==
    IF new_characters = <<>> THEN chars
    ELSE LET new_char == Head(new_characters)
             inserted == IF new_char.wiki_url \in DOMAIN chars
                         THEN chars
                         ELSE chars @@ (new_char.wiki_url :>
                                  CharacterRow(new_char.name, new_char.starting_value, chapter_number))
         IN InsertNewCharacters(inserted, Tail(new_characters), chapter_number)

\* A history insert with the UNIQUE constraint left out.
InsertHistoryNoUnique(hist, row) == hist \cup {row}

\* A history insert that replaces the row of the same (character, chapter).
InsertOrReplaceHistory(hist, row) ==
    {r \in hist : ~(r.character_wiki_url = row.character_wiki_url
                      /\ r.chapter_number = row.chapter_number)} \cup {row}

\* The history insert of one change: INSERT OR IGNORE.
InsertOrIgnoreHistory(hist, row) ==
    IF HasHistoryRow(hist, row.character_wiki_url, row.chapter_number)
    THEN hist
    ELSE hist \cup {row}

\* The loop over character_changes; raised is TRUE when the loop raised.
RECURSIVE ApplyCharacterChanges(_, _, _, _)
ApplyCharacterChanges(chars, hist, character_changes, chapter_number) ==
    IF character_changes = <<>>
    THEN [raised |-> FALSE, characters |-> chars, character_history |-> hist]
    ELSE LET change == Head(character_changes) IN
         IF change.wiki_url \notin DOMAIN chars
         THEN ApplyCharacterChanges(chars, hist, Tail(character_changes), chapter_number)
         ELSE IF ~change.is_number
         THEN [raised |-> TRUE, characters |-> chars, character_history |-> hist]
         ELSE LET new_value == chars[change.wiki_url].current_value + change.value_change
                  updated == [chars EXCEPT ![change.wiki_url].current_value = new_value]
                  row == HistoryRow(change.wiki_url, chapter_number, change.value_change,
                                    new_value, change.reasoning)
              IN ApplyCharacterChanges(updated, InsertOrIgnoreHistory(hist, row),
                                       Tail(character_changes), chapter_number)


\* A store call that reports success and writes nothing.
StoreNothing(chars, hist, chapter_number, character_changes, new_characters) ==
    [result |-> TRUE, characters |-> chars, character_history |-> hist]

\* The whole transaction: committed, or rolled back when something raised.
ProcessCharacterChanges(chars, hist, chapter_number, character_changes, new_characters) ==
    LET inserted == InsertNewCharacters(chars, new_characters, chapter_number)
        applied == ApplyCharacterChanges(inserted, hist, character_changes, chapter_number)
    IN IF applied.raised
       THEN [result |-> FALSE, characters |-> chars, character_history |-> hist]
       ELSE [result |-> TRUE, characters |-> applied.characters,
             character_history |-> applied.character_history]

process_character_changes(chapter_number, character_changes, new_characters) ==
    LET done == ProcessCharacterChanges(characters, character_history, chapter_number,
                                        character_changes, new_characters)
    IN /\ characters' = done.characters
       /\ character_history' = done.character_history
       /\ last_call' = [op |-> "process_character_changes", chapter_number |-> chapter_number,
                        urls |-> UrlsOf(character_changes), result |-> done.result,
                        new_urls |-> UrlsOf(new_characters)]
       /\ UNCHANGED <<chapters, market_snapshots>>

(***************************************************************************)
(* The store driven through its API by an arbitrary caller.                *)
(***************************************************************************)
NoCall == [op |-> "none", chapter_number |-> 0, urls |-> {}, result |-> TRUE]

\* No controller process is running.
\* CharacterManager.tier_thresholds as __init__ sets them.
DefaultTierThresholds ==
    [legendary |-> 900, top_tier |-> 700, high_tier |-> 500, mid_tier |-> 300,
     low_tier |-> 100, weak |-> 50]

NoAnalysis == [character_changes |-> <<>>, new_characters |-> <<>>]

\* DataGenerator.process_chapter has not been called.
NoOfflineCall ==
    [calls |-> 0, chapter_id |-> 0, stock_changes |-> <<>>, returned |-> "none"]

\* No function has been applied.
NoValue == [fn |-> "none"]

\* chapter_data as a handler holds it: whether scrape_chapter_page returned
\* it, the length of its summary and the number of its characters.
ChapterData(scraped, summary_length, ncharacters) ==
    [scraped |-> scraped, summary_length |-> summary_length, ncharacters |-> ncharacters]
NoChapterData == ChapterData(FALSE, 0, 0)

\* What scrape_chapter_page can return for a chapter: a summary one
\* character short of 50, a page without characters, a full page.
ScrapedChapterData ==
    {ChapterData(TRUE, 49, 1), ChapterData(TRUE, 50, 0), ChapterData(TRUE, 50, 1)}

\* RealWikiChapterData._get_fallback_chapter_data: the summary
\* "Chapter n of One Piece manga." (29 characters for n < 10), no characters.
FallbackChapterData == ChapterData(FALSE, 29, 0)

Idle ==
    [kind |-> "none", pc |-> "idle", current_chapter |-> 0, start_chapter |-> 0,
     analysis |-> NoAnalysis, success |-> FALSE, outcome |-> "none",
     oracle_called |-> FALSE, consecutive_failures |-> 0,
     tier_thresholds |-> DefaultTierThresholds, chapter_data |-> NoChapterData]

Init ==
    /\ characters = <<>>
    /\ character_history = {}
    /\ chapters = [n \in Chapters |-> "absent"]
    /\ market_snapshots = {}
    /\ last_call = NoCall
    /\ ncalls = 0
    /\ progress_file = [exists |-> FALSE, last_successful_chapter |-> 0]
    /\ progress_data = [last_processed_chapter |-> 0, failed_chapters |-> {}]
    /\ proc = Idle
    /\ nattempts = 0
    /\ stock_characters = <<>>
    /\ market_events = <<>>
    /\ processed_chapters = {}
    /\ offline_call = NoOfflineCall
    /\ fn_input = NoValue
    /\ fn_output = NoValue

ChangeArgs ==
    {CharacterChange(u, v, TRUE, "Defeated major opponent") : u \in Urls, v \in ValueChanges}
        \cup {CharacterChange("/wiki/luffy", 0, FALSE, "Defeated major opponent")}
NewCharacterArgs == {NewCharacter(u, "Luffy", v) : u \in Urls, v \in StartingValues}

CallAddCharacter ==
    /\ ncalls < MaxCalls
    /\ ncalls' = ncalls + 1
    /\ UNCHANGED <<ctl_vars, aux_vars>>
    /\ \E u \in UrlArgs, nm \in NameArgs, v \in StartingValues, fa \in FirstAppearanceArgs :
           add_character(u, nm, v, fa)

CallAddCharacterChange ==
    /\ ncalls < MaxCalls
    /\ ncalls' = ncalls + 1
    /\ UNCHANGED <<ctl_vars, aux_vars>>
    /\ \E u \in Urls, n \in ChapterArgs, v \in ValueChanges, nv \in NewValueArgs :
           add_character_change(u, n, v, nv, "Defeated major opponent")

CallProcessCharacterChanges ==
    /\ ncalls < MaxCalls
    /\ ncalls' = ncalls + 1
    /\ UNCHANGED <<ctl_vars, aux_vars>>
    /\ \E n \in ChapterArgs, cs \in SeqUpTo(ChangeArgs, 2), ns \in SeqUpTo(NewCharacterArgs, 1) :
           process_character_changes(n, cs, ns)

CallUpdateCharacterValue ==
    /\ ncalls < MaxCalls
    /\ ncalls' = ncalls + 1
    /\ UNCHANGED <<ctl_vars, aux_vars>>
    /\ \E u \in Urls, nv \in NewValueArgs : update_character_value(u, nv)

\* Only add_character and process_character_changes.
NextFold == CallAddCharacter \/ CallProcessCharacterChanges
SpecFold == Init /\ [][NextFold]_vars

\* add_character, add_character_change and process_character_changes.
NextStore == CallAddCharacter \/ CallAddCharacterChange \/ CallProcessCharacterChanges
SpecStore == Init /\ [][NextStore]_vars

\* Every call that writes table characters.
NextLifecycle == CallAddCharacter \/ CallUpdateCharacterValue \/ CallProcessCharacterChanges
SpecLifecycle == Init /\ [][NextLifecycle]_vars

(***************************************************************************)
(* Table chapters: add_chapter, mark_chapter_processed and the queries.    *)
(***************************************************************************)
\* DatabaseManager.add_chapter: INSERT OR REPLACE ... processed = FALSE.
AddChapter(chs, number) == [chs EXCEPT ![number] = "unprocessed"]

\* DatabaseManager.mark_chapter_processed: UPDATE ... WHERE number = ?.
MarkChapterProcessed(chs, chapter_number) ==
    IF chs[chapter_number] = "absent" THEN chs
    ELSE [chs EXCEPT ![chapter_number] = "processed"]

\* DatabaseManager.is_chapter_processed
IsChapterProcessed(chs, chapter_number) == chs[chapter_number] = "processed"

Max(S) == CHOOSE x \in S : \A y \in S : y <= x

\* DatabaseManager.get_last_processed_chapter, None read as 0 by the callers.
LastProcessedChapter(chs) ==
    LET done == {n \in Chapters : chs[n] = "processed"}
    IN IF done = {} THEN 0 ELSE Max(done)

(***************************************************************************)
(* The valuation oracle (LLMAnalyzer.analyze_chapter as the controllers    *)
(* call it): it fails (None) or returns any lists of changes and new       *)
(* characters.                                                             *)
(***************************************************************************)
AnalysisResult(character_changes, new_characters) ==
    [character_changes |-> character_changes, new_characters |-> new_characters]
OracleResults ==
    {AnalysisResult(<<>>, <<>>),
     AnalysisResult(<<>>, <<NewCharacter("/wiki/luffy", "Luffy", 100)>>),
     AnalysisResult(<<CharacterChange("/wiki/luffy", -150, TRUE, "appeared")>>,
                    <<NewCharacter("/wiki/luffy", "Luffy", 100)>>),
     AnalysisResult(<<CharacterChange("/wiki/luffy", 25, TRUE, "Defeated major opponent")>>,
                    <<>>),
     AnalysisResult(<<CharacterChange("/wiki/luffy", 0, FALSE, "appeared")>>, <<>>),
     AnalysisResult(<<>>, <<NewCharacter("/wiki/zoro", "Zoro", -5)>>)}

\* start_chapter arguments of the run loops.
StartChapterArgs == {1, 2}

(***************************************************************************)
(* CharacterManager (character_manager.py): starting values, validation of *)
(* value changes, tier thresholds.                                         *)
(***************************************************************************)
Abs(x) == IF x >= 0 THEN x ELSE -x

\* int(n / d) for d > 0: truncation toward zero.
TruncDiv(n, d) == IF n >= 0 THEN n \div d ELSE -((-n) \div d)

\* The |x| <= 1000 for which the double x * 0.7 lies just below the integer
\* 7x/10, so that int(x * 0.7) is one less in magnitude (int(90 * 0.7) = 62).
BelowTimes07 ==
    {90, 170, 180, 330, 340, 350, 360, 650, 660, 670, 680, 690, 700, 710, 720, 730}

\* int(x * 0.7)
IntTimes07(x) ==
    LET t == TruncDiv(7 * Abs(x), 10)
        m == IF Abs(x) \in BelowTimes07 THEN t - 1 ELSE t
    IN IF x >= 0 THEN m ELSE -m

\* int(x * 1.25): a factor that enlarges the change.
IntTimes125(x) == TruncDiv(125 * x, 100)

\* int(x * 0.8)
IntTimes08(x) == TruncDiv(8 * x, 10)

\* CharacterManager.change_limits
ChangeLimits ==
    [legendary |-> [max_increase |-> 50, max_decrease |-> 30],
     top_tier |-> [max_increase |-> 60, max_decrease |-> 40],
     high_tier |-> [max_increase |-> 70, max_decrease |-> 50],
     mid_tier |-> [max_increase |-> 80, max_decrease |-> 60],
     low_tier |-> [max_increase |-> 100, max_decrease |-> 80],
     weak |-> [max_increase |-> 150, max_decrease |-> 100]]

\* CharacterManager._get_character_tier
GetCharacterTier(tier_thresholds, current_value) ==
    IF current_value >= tier_thresholds.legendary THEN "legendary"
    ELSE IF current_value >= tier_thresholds.top_tier THEN "top_tier"
    ELSE IF current_value >= tier_thresholds.high_tier THEN "high_tier"
    ELSE IF current_value >= tier_thresholds.mid_tier THEN "mid_tier"
    ELSE IF current_value >= tier_thresholds.low_tier THEN "low_tier"
    ELSE "weak"

\* CharacterManager._evaluate_reasoning_quality on the reasoning texts of the
\* model, in hundredths: "Defeated major opponent" scores 0.25 + 0.15 + 0.1,
\* "appeared" is shorter than 10 characters and scores 0.0.
EvaluateReasoningQuality(reasoning) ==
    CASE reasoning = "Defeated major opponent" -> 50
      [] reasoning = "appeared" -> 0

\* DatabaseManager.get_character_recent_activity: the rows of a character,
\* highest chapter_number first, at most last_n_chapters of them.
RECURSIVE RecentActivity(_, _, _)
RecentActivity(hist, wiki_url, last_n_chapters) ==
    LET rows == HistoryOf(hist, wiki_url) IN
    IF rows = {} \/ last_n_chapters = 0 THEN <<>>
    ELSE LET r == CHOOSE x \in rows : \A y \in rows : y.chapter_number <= x.chapter_number
         IN <<r>> \o RecentActivity(hist \ {r}, wiki_url, last_n_chapters - 1)

\* validate_value_change with the tier cap only: no check of the resulting
\* value against [1, 1000] and no damping.
ValidateValueChangeCapOnly(chars, hist, tier_thresholds, wiki_url, proposed_change, reasoning) ==
    LET limits == ChangeLimits[GetCharacterTier(tier_thresholds, chars[wiki_url].current_value)]
    IN [is_valid |-> TRUE,
        adjusted_change |->
            IF proposed_change > limits.max_increase THEN limits.max_increase
            ELSE IF proposed_change < -limits.max_decrease THEN -limits.max_decrease
            ELSE proposed_change]

\* validate_value_change with the reversal check made before the volatility
\* check.
ValidateValueChangeReversalFirst(chars, hist, tier_thresholds, wiki_url, proposed_change, reasoning) ==
    LET current_value == chars[wiki_url].current_value
        limits == ChangeLimits[GetCharacterTier(tier_thresholds, current_value)]
        capped == IF proposed_change > limits.max_increase THEN limits.max_increase
                  ELSE IF proposed_change < -limits.max_decrease THEN -limits.max_decrease
                  ELSE proposed_change
        bounded == IF current_value + capped < 1 THEN 1 - current_value
                   ELSE IF current_value + capped > 1000 THEN 1000 - current_value
                   ELSE capped
        recent == RecentActivity(hist, wiki_url, 3)
        last_change == recent[1].value_change
        reversed == IF Len(recent) >= 1
                       /\ \/ last_change > 20 /\ bounded < -20
                          \/ last_change < -20 /\ bounded > 20
                    THEN IntTimes08(bounded) ELSE bounded
        recent_volatility ==
            Abs(recent[Len(recent) - 1].value_change) + Abs(recent[Len(recent)].value_change)
        calmed == IF Len(recent) >= 2 /\ Abs(reversed) > 50 /\ recent_volatility > 100
                  THEN IntTimes07(reversed) ELSE reversed
        adjusted_change == IF EvaluateReasoningQuality(reasoning) < 50 /\ Abs(calmed) > 20
                           THEN IntTimes08(calmed) ELSE calmed
        largest == IF limits.max_increase >= limits.max_decrease
                   THEN limits.max_increase ELSE limits.max_decrease
    IN [is_valid |-> Abs(adjusted_change) <= largest, adjusted_change |-> adjusted_change]

\* CharacterManager.validate_value_change for a character of the store and
\* an integer proposed_change.
ValidateValueChange(chars, hist, tier_thresholds, wiki_url, proposed_change, reasoning) ==
    LET current_value == chars[wiki_url].current_value
        limits == ChangeLimits[GetCharacterTier(tier_thresholds, current_value)]
        capped == IF proposed_change > limits.max_increase THEN limits.max_increase
                  ELSE IF proposed_change < -limits.max_decrease THEN -limits.max_decrease
                  ELSE proposed_change
        bounded == IF current_value + capped < 1 THEN 1 - current_value
                   ELSE IF current_value + capped > 1000 THEN 1000 - current_value
                   ELSE capped
        recent == RecentActivity(hist, wiki_url, 3)
        recent_volatility ==
            Abs(recent[Len(recent) - 1].value_change) + Abs(recent[Len(recent)].value_change)
        calmed == IF Len(recent) >= 2 /\ Abs(bounded) > 50 /\ recent_volatility > 100
                  THEN IntTimes07(bounded) ELSE bounded
        last_change == recent[1].value_change
        reversed == IF Len(recent) >= 1
                       /\ \/ last_change > 20 /\ calmed < -20
                          \/ last_change < -20 /\ calmed > 20
                    THEN IntTimes08(calmed) ELSE calmed
        adjusted_change == IF EvaluateReasoningQuality(reasoning) < 50 /\ Abs(reversed) > 20
                           THEN IntTimes08(reversed) ELSE reversed
        largest == IF limits.max_increase >= limits.max_decrease
                   THEN limits.max_increase ELSE limits.max_decrease
    IN [is_valid |-> Abs(adjusted_change) <= largest, adjusted_change |-> adjusted_change]

\* The validation loop of process_character_changes_with_validation: a change
\* of an unknown character or one that is not valid is rejected, a valid one
\* is kept with its adjusted value; a value_change that is no number raises.
RECURSIVE ValidateChanges(_, _, _, _)
ValidateChanges(chars, hist, tier_thresholds, character_changes) ==
    IF character_changes = <<>> THEN [raised |-> FALSE, validated |-> <<>>]
    ELSE LET change == Head(character_changes)
             rest == ValidateChanges(chars, hist, tier_thresholds, Tail(character_changes))
         IN IF change.wiki_url \notin DOMAIN chars THEN rest
            ELSE IF ~change.is_number THEN [raised |-> TRUE, validated |-> <<>>]
            ELSE LET validation == ValidateValueChange(chars, hist, tier_thresholds,
                                       change.wiki_url, change.value_change, change.reasoning)
                 IN IF validation.is_valid
                    THEN [rest EXCEPT !.validated =
                             <<[change EXCEPT !.value_change = validation.adjusted_change]>> \o @]
                    ELSE rest

\* CharacterManager._calculate_base_starting_value: no name of the model
\* holds a title or a race the function looks for.
CalculateBaseStartingValue(name) == 100

\* CharacterManager._apply_chapter_scaling: int(base_value * scaling_factor)
ApplyChapterScaling(base_value, chapter_number) ==
    IF chapter_number <= 100 THEN TruncDiv(8 * base_value, 10)
    ELSE IF chapter_number <= 200 THEN base_value
    ELSE IF chapter_number <= 400 THEN TruncDiv(12 * base_value, 10)
    ELSE IF chapter_number <= 600 THEN TruncDiv(15 * base_value, 10)
    ELSE IF chapter_number <= 800 THEN 2 * base_value
    ELSE IF chapter_number <= 1000 THEN TruncDiv(25 * base_value, 10)
    ELSE 3 * base_value

\* DatabaseManager.get_top_characters: current values, highest first.
RECURSIVE TopValues(_, _, _)
TopValues(chars, urls, limit) ==
    IF urls = {} \/ limit = 0 THEN <<>>
    ELSE LET u == CHOOSE x \in urls :
                     \A y \in urls : chars[y].current_value <= chars[x].current_value
         IN <<chars[u].current_value>> \o TopValues(chars, urls \ {u}, limit - 1)

RECURSIVE SumSeq(_)
SumSeq(s) == IF s = <<>> THEN 0 ELSE Head(s) + SumSeq(Tail(s))

\* CharacterManager._apply_market_context_scaling against the five highest
\* values; market_average is sum / n, compared without the division.
ApplyMarketContextScaling(scaled_value, chars) ==
    LET top_values == TopValues(chars, DOMAIN chars, 5)
        n == Len(top_values)
        sum == SumSeq(top_values)
    IN IF n = 0 THEN scaled_value
       ELSE IF 10 * n * scaled_value > 8 * sum
            THEN LET competitive == TruncDiv(9 * sum, 10 * n)
                 IN IF scaled_value >= competitive THEN scaled_value ELSE competitive
       ELSE IF 10 * n * scaled_value < 2 * sum
            THEN LET deflated == TruncDiv(3 * sum, 10 * n)
                 IN IF scaled_value <= deflated THEN scaled_value ELSE deflated
       ELSE scaled_value

\* CharacterManager.calculate_starting_value
CalculateStartingValue(chars, name, chapter_number) ==
    LET final_value == ApplyMarketContextScaling(
                           ApplyChapterScaling(CalculateBaseStartingValue(name), chapter_number),
                           chars)
    IN IF final_value > 1000 THEN 1000 ELSE IF final_value < 1 THEN 1 ELSE final_value

\* sorted(values)
RECURSIVE SortedValues(_, _)
SortedValues(chars, urls) ==
    IF urls = {} THEN <<>>
    ELSE LET u == CHOOSE x \in urls :
                     \A y \in urls : chars[x].current_value <= chars[y].current_value
         IN <<chars[u].current_value>> \o SortedValues(chars, urls \ {u})

\* CharacterManager.calculate_market_dynamics: the two thresholds it
\* returns, sorted_values[int(len * 0.9)] and sorted_values[int(len * 0.6)]
\* raised to at least 700 and 300.
CalculateMarketDynamics(chars) ==
    LET sorted_values == SortedValues(chars, DOMAIN chars)
        n == Len(sorted_values)
        p90 == sorted_values[TruncDiv(9 * n, 10) + 1]
        p60 == sorted_values[TruncDiv(6 * n, 10) + 1]
    IN IF n = 0 THEN [top_tier_threshold |-> 700, mid_tier_threshold |-> 300]
       ELSE [top_tier_threshold |-> IF p90 > 700 THEN p90 ELSE 700,
             mid_tier_threshold |-> IF p60 > 300 THEN p60 ELSE 300]

AtLeast(floor, x) == IF x > floor THEN x ELSE floor

\* CharacterManager.update_tier_thresholds: the thresholds derived from the
\* market, then the ordering pass from the top tier down.
UpdateTierThresholds(market_dynamics) ==
    LET top_tier == market_dynamics.top_tier_threshold
        mid_tier == market_dynamics.mid_tier_threshold
        weak == AtLeast(50, TruncDiv(2 * mid_tier, 10))
        low_tier == AtLeast(100, TruncDiv(4 * mid_tier, 10))
        mid == AtLeast(300, mid_tier)
        high_tier == AtLeast(500, TruncDiv(top_tier + mid_tier, 2))
        top == AtLeast(700, top_tier)
        legendary == AtLeast(900, TruncDiv(12 * top_tier, 10))
        legendary1 == IF legendary <= top THEN top + 50 ELSE legendary
        top1 == IF top <= high_tier THEN high_tier + 50 ELSE top
        high1 == IF high_tier <= mid THEN mid + 50 ELSE high_tier
        mid1 == IF mid <= low_tier THEN low_tier + 50 ELSE mid
        low1 == IF low_tier <= weak THEN weak + 50 ELSE low_tier
    IN [legendary |-> legendary1, top_tier |-> top1, high_tier |-> high1,
        mid_tier |-> mid1, low_tier |-> low1, weak |-> weak]

\* PRAGMA foreign_key_check of validate_database_integrity: every history row
\* names a stored character, every snapshot a stored chapter.
ForeignKeysHold(chars, hist, chs, snapshots) ==
    /\ \A r \in hist : r.character_wiki_url \in DOMAIN chars
    /\ \A s \in snapshots : chs[s.chapter_number] # "absent"

\* CharacterManager.maintain_character_histories: save_market_snapshot
\* (INSERT OR REPLACE) unless the integrity check fails.
MaintainCharacterHistories(chars, hist, chs, snapshots, chapter_number) ==
    IF ForeignKeysHold(chars, hist, chs, snapshots)
    THEN {s \in snapshots : s.chapter_number # chapter_number}
         \cup {[chapter_number |-> chapter_number,
                total_characters |-> Cardinality(DOMAIN chars)]}
    ELSE snapshots

(***************************************************************************)
(* The market context read from the store for the oracle.                  *)
(***************************************************************************)
\* DatabaseManager.get_top_characters: ORDER BY current_value DESC LIMIT ?
RECURSIVE GetTopCharacters(_, _, _)
GetTopCharacters(chars, urls, limit) ==
    IF urls = {} \/ limit = 0 THEN <<>>
    ELSE LET u == CHOOSE x \in urls :
                     \A y \in urls : chars[y].current_value <= chars[x].current_value
         IN <<[name |-> chars[u].name, current_value |-> chars[u].current_value,
               wiki_url |-> u]>> \o GetTopCharacters(chars, urls \ {u}, limit - 1)

\* DatabaseManager.get_bottom_characters: ORDER BY current_value ASC LIMIT ?
RECURSIVE GetBottomCharacters(_, _, _)
GetBottomCharacters(chars, urls, limit) ==
    IF urls = {} \/ limit = 0 THEN <<>>
    ELSE LET u == CHOOSE x \in urls :
                     \A y \in urls : chars[x].current_value <= chars[y].current_value
         IN <<[name |-> chars[u].name, current_value |-> chars[u].current_value,
               wiki_url |-> u]>> \o GetBottomCharacters(chars, urls \ {u}, limit - 1)

\* DatabaseManager.get_recent_character_changes: the history rows joined
\* with their characters whose chapter_number is above
\* COALESCE(MAX(chapter_number) - last_n_chapters, 0); the rows as a set.
GetRecentCharacterChanges(chars, hist, last_n_chapters) ==
    LET newest == IF hist = {} THEN 0
                  ELSE Max({r.chapter_number : r \in hist}) - last_n_chapters
    IN {[character |-> chars[r.character_wiki_url].name, chapter |-> r.chapter_number,
         change |-> r.value_change, reason |-> r.reasoning, new_value |-> r.new_value] :
            r \in {x \in hist : x.character_wiki_url \in DOMAIN chars
                                   /\ x.chapter_number > newest}}

\* DatabaseManager.get_current_market_context
GetCurrentMarketContext(chars, hist) ==
    [recent_changes |-> GetRecentCharacterChanges(chars, hist, 5),
     top_characters |-> GetTopCharacters(chars, DOMAIN chars, 10),
     bottom_characters |-> GetBottomCharacters(chars, DOMAIN chars, 10),
     total_characters |-> Cardinality(DOMAIN chars)]

(***************************************************************************)
(* CharacterManager.calculate_market_dynamics over the store. The floats   *)
(* average_value, median_value and recent_volatility are kept in           *)
(* hundredths (100.0 is 10000).                                            *)
(***************************************************************************)
\* The sum of |change| over a set of recent changes.
RECURSIVE SumAbsChange(_)
SumAbsChange(changes) ==
    IF changes = {} THEN 0
    ELSE LET c == CHOOSE x \in changes : TRUE
         IN (IF c.change >= 0 THEN c.change ELSE -c.change) + SumAbsChange(changes \ {c})

\* CharacterManager._calculate_recent_volatility: the mean |change| of the
\* changes of the last 10 chapters, 0.0 when there is none.
CalculateRecentVolatility(chars, hist) ==
    LET recent_changes == GetRecentCharacterChanges(chars, hist, 10)
    IN IF recent_changes = {} THEN 0
       ELSE (100 * SumAbsChange(recent_changes)) \div Cardinality(recent_changes)

\* calculate_market_dynamics with an all-zero result for an empty table.
MarketDynamicsZeroBaseline(chars, hist) ==
    [average_value |-> 0, median_value |-> 0, recent_volatility |-> 0,
     top_tier_threshold |-> 0, mid_tier_threshold |-> 0]

\* calculate_market_dynamics: the baseline it returns for an empty table
\* characters, else the statistics of the stored current values.
MarketDynamicsOf(chars, hist) ==
    IF DOMAIN chars = {}
    THEN [average_value |-> 10000, median_value |-> 10000, recent_volatility |-> 0,
          top_tier_threshold |-> 700, mid_tier_threshold |-> 300]
    ELSE LET sorted_values == SortedValues(chars, DOMAIN chars)
             n == Len(sorted_values)
             total == SumSeq(sorted_values)
             thresholds == CalculateMarketDynamics(chars)
         IN [average_value |-> IF total >= 0 THEN (100 * total) \div n
                               ELSE -((100 * (-total)) \div n),
             median_value |-> 100 * sorted_values[(n \div 2) + 1],
             recent_volatility |-> CalculateRecentVolatility(chars, hist),
             top_tier_threshold |-> thresholds.top_tier_threshold,
             mid_tier_threshold |-> thresholds.mid_tier_threshold]

(***************************************************************************)
(* Steps shared by the chapter handlers.                                   *)
(***************************************************************************)
\* The handler returns: success is its return value, outcome the path taken.
Returning(p, success, outcome, oracle_called) ==
    [p EXCEPT !.pc = "returned", !.success = success, !.outcome = outcome,
              !.oracle_called = oracle_called, !.analysis = NoAnalysis,
              !.chapter_data = NoChapterData]

\* The oracle answered: the handler holds its result and goes on to pc.
Analysed(p, analysis, pc) ==
    [p EXCEPT !.pc = pc, !.analysis = analysis, !.oracle_called = TRUE]

\* A process of the given kind starts its loop at chapter first.
Started(kind, start_chapter, first) ==
    [Idle EXCEPT !.kind = kind, !.pc = "loop", !.start_chapter = start_chapter,
                 !.current_chapter = first]

\* db_manager.process_character_changes(chapter, changes, new_characters) as
\* the handlers of BatchProcessor, ChapterProcessor and
\* generate_real_llm_data call it; a False result fails the chapter.
StoreResults(kind) ==
    /\ proc.kind = kind
    /\ proc.pc = "store"
    /\ LET done == ProcessCharacterChanges(characters, character_history,
                       proc.current_chapter, proc.analysis.character_changes,
                       proc.analysis.new_characters)
       IN /\ characters' = done.characters
          /\ character_history' = done.character_history
          /\ proc' = IF done.result
                     THEN [proc EXCEPT !.pc = "add_chapter"]
                     ELSE Returning(proc, FALSE, "failed", TRUE)
    /\ UNCHANGED <<chapters, market_snapshots, last_call, ncalls, aux_vars, progress_file,
                   progress_data, nattempts>>

\* db_manager.add_chapter(chapter, title, url) after the results are stored.
AddChapterAfterStore(kind) ==
    /\ proc.kind = kind
    /\ proc.pc = "add_chapter"
    /\ chapters' = AddChapter(chapters, proc.current_chapter)
    /\ proc' = [proc EXCEPT !.pc = "mark"]
    /\ UNCHANGED <<characters, character_history, market_snapshots, last_call, ncalls, aux_vars,
                   progress_file, progress_data, nattempts>>

\* db_manager.mark_chapter_processed(chapter), then return True.
MarkProcessed(kind) ==
    /\ proc.kind = kind
    /\ proc.pc = "mark"
    /\ chapters' = MarkChapterProcessed(chapters, proc.current_chapter)
    /\ proc' = Returning(proc, TRUE, "committed", TRUE)
    /\ UNCHANGED <<characters, character_history, market_snapshots, last_call, ncalls, aux_vars,
                   progress_file, progress_data, nattempts>>

(***************************************************************************)
(* BatchProcessor (batch_processor.py)                                     *)
(***************************************************************************)
\* BatchProcessor.get_last_successful_chapter
GetLastSuccessfulChapter(file, start_chapter) ==
    IF file.exists THEN file.last_successful_chapter ELSE start_chapter - 1

\* run_batch_processing up to the loop: the chapter to resume at.
BatchStart ==
    /\ proc.kind = "none"
    /\ \E start_chapter \in StartChapterArgs :
          LET last_successful == GetLastSuccessfulChapter(progress_file, start_chapter)
              first == IF last_successful + 1 > start_chapter
                       THEN last_successful + 1 ELSE start_chapter
          IN proc' = Started("batch", start_chapter, first)
    /\ UNCHANGED <<store_vars, last_call, ncalls, aux_vars, progress_file, progress_data, nattempts>>

\* The loop reached end_chapter.
BatchEnd ==
    /\ proc.kind = "batch"
    /\ proc.pc = "loop"
    /\ proc.current_chapter > MaxChapter
    /\ proc' = Idle
    /\ UNCHANGED <<store_vars, last_call, ncalls, aux_vars, progress_file, progress_data, nattempts>>

\* The content check of process_single_chapter: a summary of at least 50
\* characters and at least one character.
SufficientContent(chapter_data) ==
    chapter_data.summary_length >= 50 /\ chapter_data.ncharacters > 0

\* process_single_chapter, steps 1 to 4: nothing is written yet.
BatchProcessSingleChapter ==
    /\ proc.kind = "batch"
    /\ proc.pc = "loop"
    /\ proc.current_chapter <= MaxChapter
    /\ nattempts < MaxAttempts
    /\ nattempts' = nattempts + 1
    /\ \/ /\ IsChapterProcessed(chapters, proc.current_chapter)
          /\ proc' = Returning(proc, TRUE, "already_processed", FALSE)
       \/ /\ ~IsChapterProcessed(chapters, proc.current_chapter)
          \* the crawl failed
          /\ proc' = Returning(proc, FALSE, "failed", FALSE)
       \/ /\ ~IsChapterProcessed(chapters, proc.current_chapter)
          \* the summary is too short or no character was found
          /\ \E d \in ScrapedChapterData : ~SufficientContent(d)
          /\ proc' = Returning(proc, FALSE, "failed", FALSE)
       \/ /\ ~IsChapterProcessed(chapters, proc.current_chapter)
          \* analyze_chapter returned None
          /\ proc' = Returning(proc, FALSE, "failed", TRUE)
       \/ /\ ~IsChapterProcessed(chapters, proc.current_chapter)
          /\ \E d \in ScrapedChapterData, a \in OracleResults :
                /\ SufficientContent(d)
                /\ proc' = Analysed([proc EXCEPT !.chapter_data = d], a,
                               IF a.character_changes # <<>> \/ a.new_characters # <<>>
                               THEN "store" ELSE "add_chapter")
    /\ UNCHANGED <<store_vars, last_call, ncalls, aux_vars, progress_file, progress_data>>

BatchStore == StoreResults("batch")
BatchAddChapter == AddChapterAfterStore("batch")
BatchMark == MarkProcessed("batch")

\* BatchProcessor.save_progress
SaveProgress(file, start_chapter, chapter_num, status) ==
    [exists |-> TRUE,
     last_successful_chapter |->
        IF status = "success" THEN chapter_num
        ELSE GetLastSuccessfulChapter(file, start_chapter)]

\* The loop body after process_single_chapter returned.
BatchAfterChapter ==
    /\ proc.kind = "batch"
    /\ proc.pc = "returned"
    /\ \/ /\ proc.success
          /\ progress_file' = SaveProgress(progress_file, proc.start_chapter,
                                           proc.current_chapter, "success")
          /\ proc' = [proc EXCEPT !.pc = "loop", !.success = FALSE, !.outcome = "none",
                                  !.oracle_called = FALSE,
                                  !.current_chapter = @ + 1]
       \/ /\ ~proc.success
          /\ progress_file' = SaveProgress(progress_file, proc.start_chapter,
                                           proc.current_chapter, "failed")
          \* STOP on any error
          /\ proc' = Idle
    /\ UNCHANGED <<store_vars, last_call, ncalls, aux_vars, progress_data, nattempts>>

(***************************************************************************)
(* ChapterProcessor (chapter_processor.py)                                 *)
(***************************************************************************)
\* ChapterProcessor.process_chapter up to the oracle's answer.
ProcessChapterBegin(chapter_num) ==
    /\ proc.kind = "none"
    /\ nattempts < MaxAttempts
    /\ nattempts' = nattempts + 1
    /\ LET p == [Started("chapter", chapter_num, chapter_num) EXCEPT !.pc = "call"] IN
       \/ /\ IsChapterProcessed(chapters, chapter_num)
          /\ proc' = Returning(p, TRUE, "already_processed", FALSE)
       \/ /\ ~IsChapterProcessed(chapters, chapter_num)
          \* the crawl failed
          /\ proc' = Returning(p, FALSE, "failed", FALSE)
       \/ /\ ~IsChapterProcessed(chapters, chapter_num)
          \* analyze_chapter returned None
          /\ proc' = Returning(p, FALSE, "failed", TRUE)
       \/ /\ ~IsChapterProcessed(chapters, chapter_num)
          /\ \E d \in ScrapedChapterData, a \in OracleResults :
                proc' = Analysed([p EXCEPT !.chapter_data = d], a,
                            IF a.character_changes # <<>> \/ a.new_characters # <<>>
                            THEN "store" ELSE "add_chapter")
    /\ UNCHANGED <<store_vars, last_call, ncalls, aux_vars, progress_file, progress_data>>

\* ChapterProcessor.get_next_chapter_to_process
GetNextChapterToProcess(chs) == LastProcessedChapter(chs) + 1

\* process_chapter(n) called for any chapter n.
ChapterProcessorProcessChapter == \E n \in Chapters : ProcessChapterBegin(n)

\* process_next_chapter
ChapterProcessorProcessNext ==
    /\ GetNextChapterToProcess(chapters) \in Chapters
    /\ ProcessChapterBegin(GetNextChapterToProcess(chapters))

ChapterProcessorStore == StoreResults("chapter")
ChapterProcessorAddChapter == AddChapterAfterStore("chapter")
ChapterProcessorMark == MarkProcessed("chapter")

\* process_chapter returned to its caller; the process ends.
ChapterProcessorDone ==
    /\ proc.kind = "chapter"
    /\ proc.pc = "returned"
    /\ proc' = Idle
    /\ UNCHANGED <<store_vars, last_call, ncalls, aux_vars, progress_file, progress_data, nattempts>>

(***************************************************************************)
(* generate_real_llm_data (generate_real_llm_data.py)                      *)
(***************************************************************************)
GenStart ==
    /\ proc.kind = "none"
    /\ \E start_chapter \in StartChapterArgs :
          proc' = Started("gen", start_chapter, start_chapter)
    /\ UNCHANGED <<store_vars, last_call, ncalls, aux_vars, progress_file, progress_data, nattempts>>

\* range(start_chapter, end_chapter + 1) is exhausted.
GenEnd ==
    /\ proc.kind = "gen"
    /\ proc.pc = "loop"
    /\ proc.current_chapter > MaxChapter
    /\ proc' = Idle
    /\ UNCHANGED <<store_vars, last_call, ncalls, aux_vars, progress_file, progress_data, nattempts>>

\* The loop body up to the oracle's answer. get_chapter_data never fails (it
\* falls back to a stub chapter) and the processed flag is not consulted.
GenAnalyze ==
    /\ proc.kind = "gen"
    /\ proc.pc = "loop"
    /\ proc.current_chapter <= MaxChapter
    /\ nattempts < MaxAttempts
    /\ nattempts' = nattempts + 1
    /\ \/ proc' = Returning(proc, FALSE, "failed", TRUE)   \* no result: raise
       \/ \E d \in ScrapedChapterData \cup {FallbackChapterData}, a \in OracleResults :
             proc' = Analysed([proc EXCEPT !.chapter_data = d], a, "store")
    /\ UNCHANGED <<store_vars, last_call, ncalls, aux_vars, progress_file, progress_data>>

GenStore == StoreResults("gen")
GenAddChapter == AddChapterAfterStore("gen")
GenMark == MarkProcessed("gen")

\* The end of the loop body, or its except clause: on to the next chapter.
GenAfterChapter ==
    /\ proc.kind = "gen"
    /\ proc.pc = "returned"
    /\ proc' = [proc EXCEPT !.pc = "loop", !.success = FALSE, !.outcome = "none",
                            !.oracle_called = FALSE,
                            !.current_chapter = @ + 1]
    /\ UNCHANGED <<store_vars, last_call, ncalls, aux_vars, progress_file, progress_data, nattempts>>

(***************************************************************************)
(* main.py: ProgressTracker, process_single_chapter and the loop of main.  *)
(***************************************************************************)
\* ProgressTracker.update_chapter_processed, saved to the progress file.
UpdateChapterProcessed(data, chapter_number, success) ==
    IF success
    THEN [last_processed_chapter |->
              IF chapter_number > data.last_processed_chapter
              THEN chapter_number ELSE data.last_processed_chapter,
          failed_chapters |-> data.failed_chapters \ {chapter_number}]
    ELSE [data EXCEPT !.failed_chapters = @ \cup {chapter_number}]

\* ProgressTracker.get_resume_chapter
GetResumeChapter(data) == data.last_processed_chapter + 1

\* ProgressTracker.should_skip_chapter
ShouldSkipChapter(data, chapter_number) == chapter_number <= data.last_processed_chapter

max_consecutive_failures == 5

\* main up to the loop: --resume, or --start-chapter / --chapter-range.
MainStart ==
    /\ proc.kind = "none"
    /\ \/ proc' = Started("main", GetResumeChapter(progress_data),
                          GetResumeChapter(progress_data))
       \/ \E start_chapter \in StartChapterArgs :
             proc' = Started("main", start_chapter, start_chapter)
    /\ UNCHANGED <<store_vars, last_call, ncalls, aux_vars, progress_file, progress_data, nattempts>>

\* The loop is left: no --max-chapters bounds it, the model stops it after
\* the last chapter.
MainEnd ==
    /\ proc.kind = "main"
    /\ proc.pc = "loop"
    /\ proc.current_chapter > MaxChapter
    /\ proc' = Idle
    /\ UNCHANGED <<store_vars, last_call, ncalls, aux_vars, progress_file, progress_data, nattempts>>

\* process_single_chapter up to add_chapter.
MainProcessSingleChapter ==
    /\ proc.kind = "main"
    /\ proc.pc = "loop"
    /\ proc.current_chapter <= MaxChapter
    /\ nattempts < MaxAttempts
    /\ nattempts' = nattempts + 1
    /\ \/ \* scrape_chapter_page returned nothing
          /\ proc' = Returning(proc, FALSE, "failed", FALSE)
          /\ UNCHANGED chapters
       \/ /\ ShouldSkipChapter(progress_data, proc.current_chapter)
          /\ proc' = Returning(proc, TRUE, "already_processed", FALSE)
          /\ UNCHANGED chapters
       \/ /\ ~ShouldSkipChapter(progress_data, proc.current_chapter)
          /\ chapters' = AddChapter(chapters, proc.current_chapter)
          /\ \E d \in ScrapedChapterData :
                proc' = [proc EXCEPT !.pc = "analyze", !.chapter_data = d]
    /\ UNCHANGED <<characters, character_history, market_snapshots, last_call, ncalls, aux_vars,
                   progress_file, progress_data>>

\* analyze_chapter and what follows a missing result.
MainAnalyze ==
    /\ proc.kind = "main"
    /\ proc.pc = "analyze"
    /\ \/ /\ proc' = Returning(proc, FALSE, "failed", TRUE)
          /\ progress_data' = UpdateChapterProcessed(progress_data, proc.current_chapter, FALSE)
       \/ /\ \E a \in OracleResults : proc' = Analysed(proc, a, "store")
          /\ UNCHANGED progress_data
    /\ UNCHANGED <<store_vars, last_call, ncalls, aux_vars, progress_file, nattempts>>

\* process_character_changes_with_validation up to the commit of
\* process_character_changes; the handler keeps the validated lists.
MainStore ==
    /\ proc.kind = "main"
    /\ proc.pc = "store"
    /\ LET validation == ValidateChanges(characters, character_history,
                             proc.tier_thresholds, proc.analysis.character_changes)
           new_characters ==
               [i \in DOMAIN proc.analysis.new_characters |->
                   NewCharacter(proc.analysis.new_characters[i].wiki_url,
                                proc.analysis.new_characters[i].name,
                                CalculateStartingValue(characters,
                                    proc.analysis.new_characters[i].name,
                                    proc.current_chapter))]
           done == IF validation.raised
                   THEN [result |-> FALSE, characters |-> characters,
                         character_history |-> character_history]
                   ELSE ProcessCharacterChanges(characters, character_history,
                            proc.current_chapter, validation.validated, new_characters)
       IN /\ characters' = done.characters
          /\ character_history' = done.character_history
          /\ IF done.result
             THEN /\ proc' = [proc EXCEPT !.pc = "maintain",
                                 !.analysis = [character_changes |-> validation.validated,
                                               new_characters |-> new_characters]]
                  /\ UNCHANGED progress_data
             ELSE /\ proc' = Returning(proc, FALSE, "failed", TRUE)
                  /\ progress_data' =
                         UpdateChapterProcessed(progress_data, proc.current_chapter, FALSE)
    /\ UNCHANGED <<chapters, market_snapshots, last_call, ncalls, aux_vars, progress_file, nattempts>>

\* maintain_character_histories, calculate_market_dynamics and
\* update_tier_thresholds after a stored chapter.
MainMaintain ==
    /\ proc.kind = "main"
    /\ proc.pc = "maintain"
    /\ market_snapshots' = MaintainCharacterHistories(characters, character_history,
                               chapters, market_snapshots, proc.current_chapter)
    /\ proc' = [proc EXCEPT !.pc = "mark",
                   !.tier_thresholds = UpdateTierThresholds(CalculateMarketDynamics(characters))]
    /\ UNCHANGED <<characters, character_history, chapters, last_call, ncalls, aux_vars,
                   progress_file, progress_data, nattempts>>

\* db_manager.mark_chapter_processed(chapter_number)
MainMark ==
    /\ proc.kind = "main"
    /\ proc.pc = "mark"
    /\ chapters' = MarkChapterProcessed(chapters, proc.current_chapter)
    /\ proc' = [proc EXCEPT !.pc = "track"]
    /\ UNCHANGED <<characters, character_history, market_snapshots, last_call, ncalls, aux_vars,
                   progress_file, progress_data, nattempts>>

\* progress_tracker.update_chapter_processed(chapter_number, success=True)
MainTrack ==
    /\ proc.kind = "main"
    /\ proc.pc = "track"
    /\ progress_data' = UpdateChapterProcessed(progress_data, proc.current_chapter, TRUE)
    /\ proc' = Returning(proc, TRUE, "committed", TRUE)
    /\ UNCHANGED <<store_vars, last_call, ncalls, aux_vars, progress_file, nattempts>>

\* The loop body after process_single_chapter returned.
MainAfterChapter ==
    /\ proc.kind = "main"
    /\ proc.pc = "returned"
    /\ proc' = IF ~proc.success /\ proc.consecutive_failures + 1 >= max_consecutive_failures
               THEN Idle
               ELSE [proc EXCEPT !.pc = "loop", !.success = FALSE, !.outcome = "none",
                        !.oracle_called = FALSE,
                        !.consecutive_failures = IF proc.success THEN 0 ELSE @ + 1,
                        !.current_chapter = @ + 1]
    /\ UNCHANGED <<store_vars, last_call, ncalls, aux_vars, progress_file, progress_data, nattempts>>

(***************************************************************************)
(* The process is killed (kill -9, power loss, an operator interrupt).     *)
(***************************************************************************)
Crash ==
    /\ proc.kind # "none"
    /\ proc' = Idle
    /\ UNCHANGED <<store_vars, last_call, ncalls, aux_vars, progress_file, progress_data, nattempts>>

NextCtl ==
    \/ BatchStart \/ BatchEnd \/ BatchProcessSingleChapter \/ BatchStore
    \/ BatchAddChapter \/ BatchMark \/ BatchAfterChapter
    \/ ChapterProcessorProcessChapter \/ ChapterProcessorProcessNext
    \/ ChapterProcessorStore \/ ChapterProcessorAddChapter \/ ChapterProcessorMark
    \/ ChapterProcessorDone
    \/ GenStart \/ GenEnd \/ GenAnalyze \/ GenStore \/ GenAddChapter \/ GenMark
    \/ GenAfterChapter
    \/ MainStart \/ MainEnd \/ MainProcessSingleChapter \/ MainAnalyze \/ MainStore
    \/ MainMaintain \/ MainMark \/ MainTrack \/ MainAfterChapter
    \/ Crash
SpecCtl == Init /\ [][NextCtl]_vars

\* BatchProcessor alone, with kills and restarts.
NextBatch ==
    \/ BatchStart \/ BatchEnd \/ BatchProcessSingleChapter \/ BatchStore
    \/ BatchAddChapter \/ BatchMark \/ BatchAfterChapter
    \/ Crash
SpecBatch == Init /\ [][NextBatch]_vars

(***************************************************************************)
(* LLMAnalyzer (llm_analyzer.py): one oracle call per character, retried.  *)
(* Stock values and multipliers are floats; the model keeps them in        *)
(* hundredths (10.0 is 1000, the multiplier 1.20 is 120).                  *)
(***************************************************************************)
\* The least and the greatest action multiplier accepted: 0.05 and 5.0.
MinMultiplier == 5
MaxMultiplier == 500
\* The greatest stock_value accepted for a new character.
MaxStockValue == 10000
\* STOCK_FLOOR = 10.0
STOCK_FLOOR == 1000

\* stock * multiplier
Times(stock, multiplier) == TruncDiv(stock * multiplier, 100)

\* The oracle's answers to one call: the call raised or its content could
\* not be used, {"stock_value": v, ...} or {"actions": [{"multiplier": m}, ...], ...}.
Failure == [kind |-> "error", stock_value |-> 0, actions |-> <<>>]
StockValue(v) == [kind |-> "stock_value", stock_value |-> v, actions |-> <<>>]
Actions(ms) == [kind |-> "actions", stock_value |-> 0, actions |-> ms]

\* One entry of the list analyze_chapter returns. tag tells which branch made
\* it; the dict itself has no such key, and has no 'actions' key when new.
StockChange(character_href, stock_change, actions, tag) ==
    [character_href |-> character_href, stock_change |-> stock_change,
     actions |-> actions, tag |-> tag]

\* Is every multiplier of the list within [0.05, 5.0]?
MultipliersInRange(actions) ==
    \A i \in DOMAIN actions : actions[i] >= MinMultiplier /\ actions[i] <= MaxMultiplier

\* final_multiplier: the product of the action multipliers.
RECURSIVE FinalMultiplier(_)
FinalMultiplier(actions) ==
    IF actions = <<>> THEN 100
    ELSE Times(FinalMultiplier(SubSeq(actions, 1, Len(actions) - 1)), actions[Len(actions)])

\* LLMAnalyzer.analyze_new_character from attempt on; responses[i] answers
\* attempt i and max_retries is Len(responses).
RECURSIVE AnalyzeNewCharacter(_, _, _, _)
AnalyzeNewCharacter(character_href, market_avg, responses, attempt) ==
    LET response == responses[attempt] IN
    IF response.kind = "stock_value" /\ response.stock_value <= MaxStockValue
    THEN StockChange(character_href,
             100 * (IF response.stock_value < 1 THEN 1 ELSE response.stock_value),
             <<>>, "new")
    ELSE IF attempt >= Len(responses)
    THEN StockChange(character_href, 100 * TruncDiv(market_avg, 100), <<>>, "new_default")
    ELSE AnalyzeNewCharacter(character_href, market_avg, responses, attempt + 1)

\* The actions of a response that analyze_existing_character accepts; <<>>
\* when it raises (no actions, or a multiplier out of range).
AcceptedActions(response) ==
    IF response.kind = "actions" /\ MultipliersInRange(response.actions)
    THEN response.actions ELSE <<>>

\* LLMAnalyzer.analyze_existing_character from attempt on.
RECURSIVE AnalyzeExistingCharacter(_, _, _)
AnalyzeExistingCharacter(character_href, responses, attempt) ==
    LET actions == AcceptedActions(responses[attempt]) IN
    IF actions # <<>>
    THEN StockChange(character_href, FinalMultiplier(actions), actions, "existing")
    ELSE IF attempt >= Len(responses)
    THEN StockChange(character_href, 100, <<100>>, "existing_default")
    ELSE AnalyzeExistingCharacter(character_href, responses, attempt + 1)

\* The two loops of analyze_chapter over a list of characters.
RECURSIVE AnalyzeExistingCharacters(_, _)
AnalyzeExistingCharacters(existing_chars, responses) ==
    IF existing_chars = <<>> THEN <<>>
    ELSE <<AnalyzeExistingCharacter(Head(existing_chars).href,
                                    responses[Head(existing_chars).href], 1)>>
         \o AnalyzeExistingCharacters(Tail(existing_chars), responses)

RECURSIVE AnalyzeNewCharacters(_, _, _)
AnalyzeNewCharacters(new_chars, market_avg, responses) ==
    IF new_chars = <<>> THEN <<>>
    ELSE <<AnalyzeNewCharacter(Head(new_chars).href, market_avg,
                               responses[Head(new_chars).href], 1)>>
         \o AnalyzeNewCharacters(Tail(new_chars), market_avg, responses)

\* The characters of a list that filter_characters keeps.
RECURSIVE FilterCharacters(_, _)
FilterCharacters(chars, keep) ==
    IF chars = <<>> THEN <<>>
    ELSE (IF Head(chars).href \in keep THEN <<Head(chars)>> ELSE <<>>)
         \o FilterCharacters(Tail(chars), keep)

\* LLMAnalyzer.analyze_chapter: keep is the set of characters the filter
\* call keeps (all of them when that call fails), responses[href] the
\* oracle's answers to the attempts made for one character.
AnalyzeChapter(market_context, keep, responses) ==
    AnalyzeExistingCharacters(FilterCharacters(market_context.existing_characters, keep),
                              responses)
    \o AnalyzeNewCharacters(FilterCharacters(market_context.new_characters, keep),
                            market_context.statistics.average, responses)

(***************************************************************************)
(* DataGenerator (generate_offline_data.py) over its store of characters   *)
(* and market events.                                                      *)
(***************************************************************************)
\* Number of process_chapter calls in one behaviour.
MaxOfflineCalls == 3

\* A new character is saved only if its initial value is at least 10.
MinInitialStock == 1000

\* Database.character_exists
CharacterExists(chars, character_id) == character_id \in DOMAIN chars

\* The sum of stock_change over the events of one character up to a chapter.
RECURSIVE SumStockChange(_, _, _)
SumStockChange(events, character_id, up_to_chapter) ==
    IF events = <<>> THEN 0
    ELSE (IF Head(events).character_id = character_id
             /\ Head(events).chapter_id <= up_to_chapter
          THEN Head(events).stock_change ELSE 0)
         + SumStockChange(Tail(events), character_id, up_to_chapter)

\* Database.calculate_current_stock(character_id, up_to_chapter): the initial
\* stock value and the stock changes up to that chapter; nothing before the
\* first appearance.
CalculateCurrentStock(chars, events, character_id, up_to_chapter) ==
    IF ~CharacterExists(chars, character_id)
       \/ chars[character_id].first_appearance_chapter > up_to_chapter
    THEN 0
    ELSE chars[character_id].initial_stock_value
         + SumStockChange(events, character_id, up_to_chapter)

\* Database.get_market_statistics(up_to_chapter)['average']: the mean stock
\* of the characters that have appeared, 0 when there is none.
MarketAverage(chars, events, up_to_chapter) ==
    LET appeared == {c \in DOMAIN chars : chars[c].first_appearance_chapter <= up_to_chapter}
        stocks == [c \in appeared |-> CalculateCurrentStock(chars, events, c, up_to_chapter)]
        RECURSIVE Sum(_)
        Sum(cs) == IF cs = {} THEN 0
                   ELSE LET c == CHOOSE x \in cs : TRUE IN stocks[c] + Sum(cs \ {c})
    IN IF appeared = {} THEN 0 ELSE TruncDiv(Sum(appeared), Cardinality(appeared))

\* Database.save_character
SaveCharacter(chars, character_id, first_appearance_chapter, initial_stock_value) ==
    chars @@ (character_id :> [first_appearance_chapter |-> first_appearance_chapter,
                               initial_stock_value |-> initial_stock_value])

\* Database.save_market_event
SaveMarketEvent(events, chapter_id, character_id, stock_change, is_first_appearance) ==
    Append(events, [chapter_id |-> chapter_id, character_id |-> character_id,
                    stock_change |-> stock_change,
                    is_first_appearance |-> is_first_appearance])

\* DataGenerator.build_market_context: the characters of the chapter split
\* into existing ones (with the stock they had after the previous chapter)
\* and new ones, and the statistics of the previous chapters. For chapter 1
\* prev_chapter is None: every character is new and the statistics are not
\* bounded by a chapter.
RECURSIVE ExistingCharacters(_, _, _, _)
ExistingCharacters(chars, events, prev_chapter, characters_in_chapter) ==
    IF characters_in_chapter = <<>> THEN <<>>
    ELSE LET char_id == Head(characters_in_chapter)
             current_stock == CalculateCurrentStock(chars, events, char_id, prev_chapter)
         IN (IF prev_chapter > 0 /\ CharacterExists(chars, char_id) /\ current_stock > 0
             THEN <<[href |-> char_id, current_stock |-> current_stock]>> ELSE <<>>)
            \o ExistingCharacters(chars, events, prev_chapter, Tail(characters_in_chapter))

RECURSIVE NewCharacters(_, _, _, _)
NewCharacters(chars, events, prev_chapter, characters_in_chapter) ==
    IF characters_in_chapter = <<>> THEN <<>>
    ELSE LET char_id == Head(characters_in_chapter)
             current_stock == CalculateCurrentStock(chars, events, char_id, prev_chapter)
         IN (IF prev_chapter > 0 /\ CharacterExists(chars, char_id) /\ current_stock > 0
             THEN <<>> ELSE <<[href |-> char_id]>>)
            \o NewCharacters(chars, events, prev_chapter, Tail(characters_in_chapter))

BuildMarketContext(chars, events, chapter_id, characters_in_chapter) ==
    LET prev_chapter == IF chapter_id > 1 THEN chapter_id - 1 ELSE 0 IN
    [statistics |->
        [average |-> MarketAverage(chars, events,
                         IF prev_chapter > 0 THEN prev_chapter ELSE MaxChapter)],
     existing_characters |->
         ExistingCharacters(chars, events, prev_chapter, characters_in_chapter),
     new_characters |-> NewCharacters(chars, events, prev_chapter, characters_in_chapter)]

\* The loop over change['actions'] without the stock floor.
RECURSIVE SaveActionsNoFloor(_, _, _, _, _)
SaveActionsNoFloor(events, chapter_id, char_id, running_stock, actions) ==
    IF actions = <<>> THEN events
    ELSE LET product == Times(running_stock, Head(actions))
         IN SaveActionsNoFloor(
                SaveMarketEvent(events, chapter_id, char_id, product - running_stock, FALSE),
                chapter_id, char_id, product, Tail(actions))

\* The loop over change['actions']: one market event per action, each with
\* the change from the running stock after the floor.
RECURSIVE SaveActions(_, _, _, _, _)
SaveActions(events, chapter_id, char_id, running_stock, actions) ==
    IF actions = <<>> THEN events
    ELSE LET product == Times(running_stock, Head(actions))
             new_stock == IF product < STOCK_FLOOR THEN STOCK_FLOOR ELSE product
             action_delta == new_stock - running_stock
         IN SaveActions(SaveMarketEvent(events, chapter_id, char_id, action_delta, FALSE),
                        chapter_id, char_id, new_stock, Tail(actions))

\* running_stock when the loop over the actions ends.
RECURSIVE RunningStock(_, _)
RunningStock(running_stock, actions) ==
    IF actions = <<>> THEN running_stock
    ELSE LET product == Times(running_stock, Head(actions))
         IN RunningStock(IF product < STOCK_FLOOR THEN STOCK_FLOOR ELSE product,
                         Tail(actions))

\* The multiplier of an existing character, clamped into [0.05, 5.0].
ClampMultiplier(multiplier) ==
    IF multiplier < MinMultiplier \/ multiplier > MaxMultiplier
    THEN (IF multiplier > MaxMultiplier THEN MaxMultiplier ELSE MinMultiplier)
    ELSE multiplier

\* The branch of an existing character: the events it saves.
SaveExistingCharacter(chars, events, chapter_id, change) ==
    LET char_id == change.character_href
        multiplier == ClampMultiplier(change.stock_change)
        current_stock == CalculateCurrentStock(chars, events, char_id, chapter_id - 1)
        product == Times(current_stock, multiplier)
        new_stock == IF product < STOCK_FLOOR THEN STOCK_FLOOR ELSE product
    IN IF change.actions # <<>>
       THEN SaveActions(events, chapter_id, char_id, current_stock, change.actions)
       ELSE SaveMarketEvent(events, chapter_id, char_id, new_stock - current_stock, FALSE)

\* The loop of process_chapter over the stock changes: a new character is
\* saved with its first event unless its initial value is below 10, an
\* existing one gets its events.
RECURSIVE SaveStockChanges(_, _, _, _)
SaveStockChanges(chars, events, chapter_id, stock_changes) ==
    IF stock_changes = <<>> THEN [characters |-> chars, market_events |-> events]
    ELSE LET change == Head(stock_changes)
             char_id == change.character_href
         IN IF ~CharacterExists(chars, char_id)
            THEN IF change.stock_change < MinInitialStock
                 THEN SaveStockChanges(chars, events, chapter_id, Tail(stock_changes))
                 ELSE SaveStockChanges(
                          SaveCharacter(chars, char_id, chapter_id, change.stock_change),
                          SaveMarketEvent(events, chapter_id, char_id, 0, TRUE),
                          chapter_id, Tail(stock_changes))
            ELSE SaveStockChanges(chars,
                     SaveExistingCharacter(chars, events, chapter_id, change),
                     chapter_id, Tail(stock_changes))

\* max_retries of analyze_chapter as process_chapter calls it (the default).
max_retries == 3

\* The answers the oracle may give to one call.
Responses ==
    {Failure, StockValue(-5), StockValue(100),
     Actions(<<120, 90>>), Actions(<<5>>), Actions(<<700>>)}

\* The answers to the attempts made for one character within one chapter:
\* the same answer to every attempt, or a rejected answer and a failed call
\* followed by an accepted one.
OfflineResponses ==
    {[i \in 1..max_retries |-> r] : r \in Responses}
        \cup {<<Actions(<<700>>), Failure, Actions(<<120, 90>>)>>}

\* The characters the crawler found in a chapter.
CharacterLists == {<<"/wiki/luffy">>, <<"/wiki/zoro">>, <<"/wiki/luffy", "/wiki/zoro">>}

\* The characters the filter call may keep.
KeepArgs == {Urls, {"/wiki/luffy"}}

\* DataGenerator.process_chapter(chapter_data)
ProcessChapter(chapter_id, characters_in_chapter, keep, responses) ==
    LET market_context == BuildMarketContext(stock_characters, market_events,
                                             chapter_id, characters_in_chapter)
        stock_changes == AnalyzeChapter(market_context, keep, responses)
        saved == SaveStockChanges(stock_characters, market_events, chapter_id, stock_changes)
    IN IF chapter_id \in processed_chapters
       THEN /\ offline_call' = [calls |-> offline_call.calls + 1, chapter_id |-> chapter_id,
                                stock_changes |-> <<>>, returned |-> "already_processed"]
            /\ UNCHANGED <<stock_characters, market_events, processed_chapters>>
       ELSE IF stock_changes = <<>>
       THEN /\ offline_call' = [calls |-> offline_call.calls + 1, chapter_id |-> chapter_id,
                                stock_changes |-> <<>>, returned |-> "no_changes"]
            /\ UNCHANGED <<stock_characters, market_events, processed_chapters>>
       ELSE /\ stock_characters' = saved.characters
            /\ market_events' = saved.market_events
            /\ processed_chapters' = processed_chapters \cup {chapter_id}
            /\ offline_call' = [calls |-> offline_call.calls + 1, chapter_id |-> chapter_id,
                                stock_changes |-> stock_changes, returned |-> "processed"]

\* generate_data hands process_chapter the chapters of a run; runs may start
\* at any chapter.
DataGeneratorProcessChapter ==
    /\ offline_call.calls < MaxOfflineCalls
    /\ \E chapter_id \in Chapters, characters_in_chapter \in CharacterLists,
          keep \in KeepArgs, responses \in [Urls -> OfflineResponses] :
           ProcessChapter(chapter_id, characters_in_chapter, keep, responses)
    /\ UNCHANGED <<store_vars, last_call, ncalls, ctl_vars, fn_vars>>

NextOffline == DataGeneratorProcessChapter
SpecOffline == Init /\ [][NextOffline]_vars

(***************************************************************************)
(* LLMAnalyzer.analyze_chapter as a function of the market context and of  *)
(* the oracle's answers.                                                   *)
(***************************************************************************)
\* statistics['average'] of the market contexts handed in: 0.0, 50.0, 108.5.
AverageArgs == {0, 5000, 10850}

\* The existing and the new characters of the market contexts handed in.
ContextCharacters ==
    {[existing_characters |-> <<[href |-> "/wiki/luffy", current_stock |-> 10000]>>,
      new_characters |-> <<[href |-> "/wiki/zoro"]>>],
     [existing_characters |-> <<[href |-> "/wiki/luffy", current_stock |-> 10000],
                                [href |-> "/wiki/zoro", current_stock |-> 10800]>>,
      new_characters |-> <<>>],
     [existing_characters |-> <<>>,
      new_characters |-> <<[href |-> "/wiki/luffy"], [href |-> "/wiki/zoro"]>>]}

\* The arguments of one analyze_chapter call and the oracle's answers to it.
AnalyzeChapterArgs ==
    {[fn |-> "analyze_chapter",
      market_context |-> [statistics |-> [average |-> a],
                          existing_characters |-> cs.existing_characters,
                          new_characters |-> cs.new_characters],
      keep |-> keep, responses |-> responses] :
        a \in AverageArgs, cs \in ContextCharacters, keep \in KeepArgs,
        responses \in [Urls -> OfflineResponses]}

InitAnalyzer ==
    /\ characters = <<>>
    /\ character_history = {}
    /\ chapters = [n \in Chapters |-> "absent"]
    /\ market_snapshots = {}
    /\ last_call = NoCall
    /\ ncalls = 0
    /\ progress_file = [exists |-> FALSE, last_successful_chapter |-> 0]
    /\ progress_data = [last_processed_chapter |-> 0, failed_chapters |-> {}]
    /\ proc = Idle
    /\ nattempts = 0
    /\ stock_characters = <<>>
    /\ market_events = <<>>
    /\ processed_chapters = {}
    /\ offline_call = NoOfflineCall
    /\ fn_input \in AnalyzeChapterArgs
    /\ fn_output = NoValue

LLMAnalyzerAnalyzeChapter ==
    /\ fn_input.fn = "analyze_chapter"
    /\ fn_output = NoValue
    /\ fn_output' = [fn |-> "analyze_chapter",
                     results |-> AnalyzeChapter(fn_input.market_context, fn_input.keep,
                                                fn_input.responses)]
    /\ UNCHANGED <<store_vars, last_call, ncalls, ctl_vars, offline_vars, fn_input>>

NextAnalyzer == LLMAnalyzerAnalyzeChapter
SpecAnalyzer == InitAnalyzer /\ [][NextAnalyzer]_vars

(***************************************************************************)
(* CharacterManager.calculate_market_dynamics as a function of the stored  *)
(* values.                                                                 *)
(***************************************************************************)
\* The values a population is drawn from: 10, 20, ..., 100.
PopulationValues == {10 * k : k \in 1..10}

\* The values of a set as a list, greatest first (an unsorted input).
RECURSIVE Descending(_)
Descending(S) ==
    IF S = {} THEN <<>>
    ELSE LET m == CHOOSE x \in S : \A y \in S : y <= x
         IN <<m>> \o Descending(S \ {m})

\* The lists of current values handed in: every non-empty population of
\* distinct values, and two with equal values.
ValueLists ==
    {Descending(S) : S \in (SUBSET PopulationValues) \ {{}}}
        \cup {<<20, 10, 20>>, <<10, 10>>}

\* sorted(values)
RECURSIVE Insert(_, _)
Insert(sorted, v) ==
    IF sorted = <<>> THEN <<v>>
    ELSE IF v <= Head(sorted) THEN <<v>> \o sorted
    ELSE <<Head(sorted)>> \o Insert(Tail(sorted), v)

RECURSIVE Sorted(_)
Sorted(values) ==
    IF values = <<>> THEN <<>> ELSE Insert(Sorted(Tail(values)), Head(values))

\* The statistics calculate_market_dynamics reads off the sorted values:
\* sorted_values[len // 2], sorted_values[int(len * 0.9)] and
\* sorted_values[int(len * 0.6)] (Python indices start at 0).
MarketStatistics(values) ==
    LET sorted_values == Sorted(values)
        n == Len(sorted_values)
    IN [median_value |-> sorted_values[(n \div 2) + 1],
        p90 |-> sorted_values[TruncDiv(9 * n, 10) + 1],
        p60 |-> sorted_values[TruncDiv(6 * n, 10) + 1]]

InitMarket ==
    /\ characters = <<>>
    /\ character_history = {}
    /\ chapters = [n \in Chapters |-> "absent"]
    /\ market_snapshots = {}
    /\ last_call = NoCall
    /\ ncalls = 0
    /\ progress_file = [exists |-> FALSE, last_successful_chapter |-> 0]
    /\ progress_data = [last_processed_chapter |-> 0, failed_chapters |-> {}]
    /\ proc = Idle
    /\ nattempts = 0
    /\ stock_characters = <<>>
    /\ market_events = <<>>
    /\ processed_chapters = {}
    /\ offline_call = NoOfflineCall
    /\ fn_input \in {[fn |-> "calculate_market_dynamics", values |-> vs] : vs \in ValueLists}
    /\ fn_output = NoValue

CharacterManagerCalculateMarketDynamics ==
    /\ fn_input.fn = "calculate_market_dynamics"
    /\ fn_output = NoValue
    /\ fn_output' = [fn |-> "calculate_market_dynamics",
                     statistics |-> MarketStatistics(fn_input.values)]
    /\ UNCHANGED <<store_vars, last_call, ncalls, ctl_vars, offline_vars, fn_input>>

NextMarket == CharacterManagerCalculateMarketDynamics
SpecMarket == InitMarket /\ [][NextMarket]_vars

(***************************************************************************)
(* CharacterManager.validate_value_change as a function of the stored      *)
(* character, its history and the proposal.                                *)
(***************************************************************************)
\* current_value of the character: values of every tier, the two bounds,
\* and values outside [1, 1000] as unvalidated store calls leave them.
CurrentValueArgs == {-200, 1, 40, 100, 300, 500, 700, 900, 970, 1000, 1500}

\* proposed_change
ProposedChangeArgs == {-200, -150, -60, -30, 0, 25, 50, 60, 150, 200}

\* The value changes of the character's history rows, chapter 1 first.
RecentChangeArgs ==
    {<<>>, <<100>>, <<-30>>, <<60, 60>>, <<-60, -60>>, <<100, 60, 5>>, <<5, 60, 100>>}

\* The history rows of a character with the given changes in chapters 1, 2, ...
HistoryWith(wiki_url, changes) ==
    {HistoryRow(wiki_url, n, changes[n], 0, "Defeated major opponent") : n \in DOMAIN changes}

ValidateValueChangeArgs ==
    {[fn |-> "validate_value_change",
      characters |-> ("/wiki/luffy" :> [CharacterRow("Luffy", 100, 1) EXCEPT !.current_value = v]),
      character_history |-> HistoryWith("/wiki/luffy", changes),
      tier_thresholds |-> DefaultTierThresholds,
      wiki_url |-> "/wiki/luffy", proposed_change |-> c, reasoning |-> r] :
        v \in CurrentValueArgs, changes \in RecentChangeArgs, c \in ProposedChangeArgs,
        r \in {"Defeated major opponent", "appeared"}}

InitValidate ==
    /\ characters = <<>>
    /\ character_history = {}
    /\ chapters = [n \in Chapters |-> "absent"]
    /\ market_snapshots = {}
    /\ last_call = NoCall
    /\ ncalls = 0
    /\ progress_file = [exists |-> FALSE, last_successful_chapter |-> 0]
    /\ progress_data = [last_processed_chapter |-> 0, failed_chapters |-> {}]
    /\ proc = Idle
    /\ nattempts = 0
    /\ stock_characters = <<>>
    /\ market_events = <<>>
    /\ processed_chapters = {}
    /\ offline_call = NoOfflineCall
    /\ fn_input \in ValidateValueChangeArgs
    /\ fn_output = NoValue

CharacterManagerValidateValueChange ==
    /\ fn_input.fn = "validate_value_change"
    /\ fn_output = NoValue
    /\ fn_output' = [fn |-> "validate_value_change",
                     validation |-> ValidateValueChange(fn_input.characters,
                                        fn_input.character_history, fn_input.tier_thresholds,
                                        fn_input.wiki_url, fn_input.proposed_change,
                                        fn_input.reasoning)]
    /\ UNCHANGED <<store_vars, last_call, ncalls, ctl_vars, offline_vars, fn_input>>

NextValidate == CharacterManagerValidateValueChange
SpecValidate == InitValidate /\ [][NextValidate]_vars

(***************************************************************************)
(* CharacterManager.update_tier_thresholds applied to the result of        *)
(* calculate_market_dynamics, as a function of table characters.           *)
(***************************************************************************)
\* The current values a population is drawn from, all within [1, 1000].
TierPopulationValues == {1, 100, 300, 500, 700, 800, 900, 1000}

\* Table characters with the given current values, one row per value.
CharactersWith(values) ==
    [i \in DOMAIN values |-> CharacterRow("Luffy", values[i], 1)]

\* The populations handed in: every non-empty set of distinct values, and
\* two with equal values.
TierPopulations ==
    {CharactersWith(Descending(S)) : S \in (SUBSET TierPopulationValues) \ {{}}}
        \cup {CharactersWith(<<1000, 1000>>), CharactersWith(<<300, 300, 100>>)}

InitThresholds ==
    /\ characters = <<>>
    /\ character_history = {}
    /\ chapters = [n \in Chapters |-> "absent"]
    /\ market_snapshots = {}
    /\ last_call = NoCall
    /\ ncalls = 0
    /\ progress_file = [exists |-> FALSE, last_successful_chapter |-> 0]
    /\ progress_data = [last_processed_chapter |-> 0, failed_chapters |-> {}]
    /\ proc = Idle
    /\ nattempts = 0
    /\ stock_characters = <<>>
    /\ market_events = <<>>
    /\ processed_chapters = {}
    /\ offline_call = NoOfflineCall
    /\ fn_input \in {[fn |-> "update_tier_thresholds", characters |-> cs] : cs \in TierPopulations}
    /\ fn_output = NoValue

CharacterManagerUpdateTierThresholds ==
    /\ fn_input.fn = "update_tier_thresholds"
    /\ fn_output = NoValue
    /\ fn_output' = [fn |-> "update_tier_thresholds",
                     tier_thresholds |->
                         UpdateTierThresholds(CalculateMarketDynamics(fn_input.characters))]
    /\ UNCHANGED <<store_vars, last_call, ncalls, ctl_vars, offline_vars, fn_input>>

NextThresholds == CharacterManagerUpdateTierThresholds
SpecThresholds == InitThresholds /\ [][NextThresholds]_vars

(***************************************************************************)
(* CharacterManager.identify_character_duplicates. A name is a sequence of *)
(* characters; a candidate is a dict with a name and a wiki_url.           *)
(***************************************************************************)
\* The characters names are made of: letters, a punctuation mark, a space.
WordChars == {"L", "l", "u", "z"}
SpaceChars == {" "}

\* str.lower() on one character.
LowerChar(c) == IF c = "L" THEN "l" ELSE c

\* str.strip()
RECURSIVE Strip(_)
Strip(s) ==
    IF s = <<>> THEN s
    ELSE IF Head(s) \in SpaceChars THEN Strip(Tail(s))
    ELSE IF s[Len(s)] \in SpaceChars THEN Strip(SubSeq(s, 1, Len(s) - 1))
    ELSE s

\* re.sub(r'\s+', ' ', s)
CollapseSpaces(s) ==
    LET keep == {i \in DOMAIN s : ~(s[i] \in SpaceChars /\ i > 1 /\ s[i - 1] \in SpaceChars)}
        F[i \in 0..Len(s)] ==
            IF i = 0 THEN <<>> ELSE IF i \in keep THEN Append(F[i - 1], s[i]) ELSE F[i - 1]
    IN F[Len(s)]

\* CharacterManager._normalize_name
NormalizeName(name) ==
    LET lowered == [i \in DOMAIN name |-> LowerChar(name[i])]
        normalized == SelectSeq(lowered, LAMBDA c : c \in WordChars \cup SpaceChars)
    IN Strip(CollapseSpaces(normalized))

\* a in b, for strings
IsSubstring(a, b) ==
    \E i \in 0..(Len(b) - Len(a)) : SubSeq(b, i + 1, i + Len(a)) = a

\* CharacterManager._are_names_similar. The three variations are applied to
\* normalized names, which hold no upper-case letter, no period, no quote
\* and no run of spaces: each leaves both names as they are, so the loop
\* finds a match only where norm1 = norm2.
AreNamesSimilar(name1, name2) ==
    LET norm1 == NormalizeName(name1)
        norm2 == NormalizeName(name2)
    IN \/ norm1 = norm2
       \/ IsSubstring(norm1, norm2)
       \/ IsSubstring(norm2, norm1)

\* The entries of a list at the given positions, in list order.
SelectIndices(list, positions) ==
    LET F[i \in 0..Len(list)] ==
            IF i = 0 THEN <<>>
            ELSE IF i \in positions THEN Append(F[i - 1], list[i]) ELSE F[i - 1]
    IN F[Len(list)]

\* CharacterManager._group_similar_names: the loop from position i on.
RECURSIVE GroupSimilarNamesFrom(_, _, _, _)
GroupSimilarNamesFrom(character_list, i, processed, groups) ==
    IF i > Len(character_list) THEN groups
    ELSE LET name1 == Strip(character_list[i].name)
             similar == {j \in (i + 1)..Len(character_list) :
                            /\ j \notin processed
                            /\ Strip(character_list[j].name) # <<>>
                            /\ AreNamesSimilar(name1, Strip(character_list[j].name))}
         IN IF i \in processed \/ name1 = <<>>
            THEN GroupSimilarNamesFrom(character_list, i + 1, processed, groups)
            ELSE GroupSimilarNamesFrom(character_list, i + 1,
                     processed \cup {i} \cup similar,
                     IF similar = {} THEN groups
                     ELSE Append(groups, SelectIndices(character_list, {i} \cup similar)))

\* CharacterManager._group_similar_names
GroupSimilarNames(character_list) == GroupSimilarNamesFrom(character_list, 1, {}, <<>>)

\* A key of the returned dict: the wiki_url of an exact duplicate, or
\* "similar_names_" with the hash of the sorted urls of a name group (the
\* sorted tuple is kept as the number of times each url occurs).
UrlKey(wiki_url) ==
    [similar_names |-> FALSE, wiki_url |-> wiki_url, urls |-> [u \in Urls |-> 0]]
SimilarNamesKey(group) ==
    [similar_names |-> TRUE, wiki_url |-> "",
     urls |-> [u \in Urls |-> Cardinality({i \in DOMAIN group : group[i].wiki_url = u})]]

\* The first loop of identify_character_duplicates: the candidates whose
\* wiki_url was already seen on an earlier candidate with a name. The urls
\* handed in carry no surrounding whitespace, strip() leaves them as they are.
UrlDuplicates(character_list, wiki_url) ==
    LET complete == {i \in DOMAIN character_list : Strip(character_list[i].name) # <<>>}
    IN SelectIndices(character_list,
           {i \in complete : /\ character_list[i].wiki_url = wiki_url
                             /\ \E j \in complete :
                                    j < i /\ character_list[j].wiki_url = wiki_url})

\* identify_character_duplicates without its first loop.
IdentifySimilarNamesOnly(character_list) ==
    LET groups == GroupSimilarNames(character_list)
    IN [k \in {SimilarNamesKey(groups[i]) : i \in DOMAIN groups} |->
           groups[Max({i \in DOMAIN groups : SimilarNamesKey(groups[i]) = k})]]

\* CharacterManager.identify_character_duplicates: the dict it returns. A
\* later name group with the key of an earlier one replaces it.
IdentifyCharacterDuplicates(character_list) ==
    LET groups == GroupSimilarNames(character_list)
        url_keys == {UrlKey(u) : u \in {v \in Urls : UrlDuplicates(character_list, v) # <<>>}}
        name_keys == {SimilarNamesKey(groups[i]) : i \in DOMAIN groups}
    IN [k \in url_keys \cup name_keys |->
           IF k.similar_names
           THEN groups[Max({i \in DOMAIN groups : SimilarNamesKey(groups[i]) = k})]
           ELSE UrlDuplicates(character_list, k.wiki_url)]

\* The names of the candidates: "Lu", "l. u", "lu z", "z".
CandidateNames == {<<"L", "u">>, <<"l", ".", " ", "u">>, <<"l", "u", " ", "z">>, <<"z">>}
Candidates == {[name |-> n, wiki_url |-> u] : n \in CandidateNames, u \in Urls}
MaxCandidates == 3
CandidateLists == UNION {[1..n -> Candidates] : n \in 0..MaxCandidates}

InitDuplicates ==
    /\ characters = [u \in {"/wiki/luffy"} |-> CharacterRow("Luffy", 100, 1)]
    /\ character_history = {}
    /\ chapters = [n \in Chapters |-> "absent"]
    /\ market_snapshots = {}
    /\ last_call = NoCall
    /\ ncalls = 0
    /\ progress_file = [exists |-> FALSE, last_successful_chapter |-> 0]
    /\ progress_data = [last_processed_chapter |-> 0, failed_chapters |-> {}]
    /\ proc = Idle
    /\ nattempts = 0
    /\ stock_characters = <<>>
    /\ market_events = <<>>
    /\ processed_chapters = {}
    /\ offline_call = NoOfflineCall
    /\ fn_input \in {[fn |-> "identify_character_duplicates", character_list |-> l] :
                        l \in CandidateLists}
    /\ fn_output = NoValue

CharacterManagerIdentifyCharacterDuplicates ==
    /\ fn_input.fn = "identify_character_duplicates"
    /\ fn_output = NoValue
    /\ fn_output' = [fn |-> "identify_character_duplicates",
                     duplicates |-> IdentifyCharacterDuplicates(fn_input.character_list)]
    /\ UNCHANGED <<store_vars, last_call, ncalls, ctl_vars, offline_vars, fn_input>>

NextDuplicates == CharacterManagerIdentifyCharacterDuplicates
SpecDuplicates == InitDuplicates /\ [][NextDuplicates]_vars

(***************************************************************************)
(* WikiCrawler.scrape_chapter_page: the retry loop, one step per pass of   *)
(* the loop body. fn_output holds the position of the call.                *)
(***************************************************************************)
\* max_retries and the first retry_delay (seconds) of scrape_chapter_page.
scrape_max_retries == 3
initial_retry_delay == 2

\* What one pass can meet: requests.exceptions.Timeout, another
\* RequestException (raise_for_status included), any other exception, or a
\* page whose title names the chapter number or not.
FetchOutcomes ==
    {[kind |-> "timeout", title_number |-> FALSE],
     [kind |-> "request_error", title_number |-> FALSE],
     [kind |-> "unexpected", title_number |-> FALSE],
     [kind |-> "page", title_number |-> TRUE],
     [kind |-> "page", title_number |-> FALSE]}

\* rate_limit values (seconds) and whether chapter_url matches /wiki/Chapter_(\d+).
RateLimitArgs == {0, 1, 2}
ScrapeArgs ==
    {[fn |-> "scrape_chapter_page", rate_limit |-> r, url_number |-> b] :
        r \in RateLimitArgs, b \in BOOLEAN}

\* The call before the first pass of the loop.
ScrapeStarted ==
    [fn |-> "scrape_chapter_page", pc |-> "loop", attempt |-> 0,
     retry_delay |-> initial_retry_delay, fetches |-> <<>>, waits |-> <<>>,
     slept |-> 0, result |-> "running"]

\* WikiCrawler._extract_chapter_number: found in the url or in the title.
ExtractChapterNumber(url_number, outcome) == url_number \/ outcome.title_number

InitScrape ==
    /\ characters = <<>>
    /\ character_history = {}
    /\ chapters = [n \in Chapters |-> "absent"]
    /\ market_snapshots = {}
    /\ last_call = NoCall
    /\ ncalls = 0
    /\ progress_file = [exists |-> FALSE, last_successful_chapter |-> 0]
    /\ progress_data = [last_processed_chapter |-> 0, failed_chapters |-> {}]
    /\ proc = Idle
    /\ nattempts = 0
    /\ stock_characters = <<>>
    /\ market_events = <<>>
    /\ processed_chapters = {}
    /\ offline_call = NoOfflineCall
    /\ fn_input \in ScrapeArgs
    /\ fn_output = ScrapeStarted

\* The loop body with the test of attempt against max_retries left out.
ScrapePassUnbounded(call, rate_limit, url_number, outcome) ==
    LET fetched == [call EXCEPT !.fetches = Append(@, outcome.kind),
                                !.slept = @ + rate_limit]
    IN IF outcome.kind \in {"page", "unexpected"}
       THEN [fetched EXCEPT !.pc = "returned",
                !.result = IF outcome.kind = "page" /\ ExtractChapterNumber(url_number, outcome)
                           THEN "chapter_data" ELSE "None"]
       ELSE [fetched EXCEPT !.waits = Append(@, call.retry_delay),
                            !.slept = @ + call.retry_delay,
                            !.retry_delay = 2 * @]

\* One pass of the loop body: sleep rate_limit, fetch, then return or wait
\* and go on. A page without a chapter number is kept as "no_chapter_number".
ScrapePass(call, rate_limit, url_number, outcome) ==
    LET no_number == outcome.kind = "page" /\ ~ExtractChapterNumber(url_number, outcome)
        fetched == [call EXCEPT !.fetches = Append(@, IF no_number THEN "no_chapter_number"
                                                      ELSE outcome.kind),
                                !.slept = @ + rate_limit]
    IN IF outcome.kind = "page"
       THEN [fetched EXCEPT !.pc = "returned",
                !.result = IF no_number THEN "None" ELSE "chapter_data"]
       ELSE IF outcome.kind = "unexpected"
       THEN [fetched EXCEPT !.pc = "returned", !.result = "None"]
       ELSE IF call.attempt < scrape_max_retries - 1
       THEN [fetched EXCEPT !.attempt = @ + 1,
                            !.waits = Append(@, call.retry_delay),
                            !.slept = @ + call.retry_delay,
                            !.retry_delay = 2 * @]
       ELSE [fetched EXCEPT !.pc = "returned", !.result = "None"]

\* for attempt in range(max_retries): the next pass of a call that has not
\* returned.
WikiCrawlerScrapeChapterPage ==
    /\ fn_input.fn = "scrape_chapter_page"
    /\ fn_output.pc = "loop"
    /\ fn_output.attempt < scrape_max_retries
    /\ \E outcome \in FetchOutcomes :
           fn_output' = ScrapePass(fn_output, fn_input.rate_limit, fn_input.url_number, outcome)
    /\ UNCHANGED <<store_vars, last_call, ncalls, ctl_vars, offline_vars, fn_input>>

NextScrape == WikiCrawlerScrapeChapterPage
SpecScrape == InitScrape /\ [][NextScrape]_vars

\* Every fetch returns or raises (session.get has timeout = 30) and every
\* sleep ends, so a pass of the loop that can be taken is taken.
SpecScrapeFair == SpecScrape /\ WF_vars(NextScrape)

(***************************************************************************)
(* DataGenerator.process_chapter for one existing character: the final     *)
(* stock it logs and the stock its market events add up to.                *)
(***************************************************************************)
\* final_stock of the log line: current_stock * multiplier, at least 10.0.
ReportedFinalStock(current_stock, stock_change) ==
    LET final_stock == Times(current_stock, ClampMultiplier(stock_change))
    IN IF final_stock < STOCK_FLOOR THEN STOCK_FLOOR ELSE final_stock

\* The character's stock after the chapter, from the events the branch of
\* an existing character saved for it.
StoredFinalStock(current_stock, change) ==
    LET chars == SaveCharacter(<<>>, change.character_href, 1, current_stock)
        events == SaveExistingCharacter(chars, <<>>, 2, change)
    IN CalculateCurrentStock(chars, events, change.character_href, 2)

\* Is every product of the chain, and the product of the multipliers, a
\* whole number of hundredths?
RECURSIVE ExactChain(_, _)
ExactChain(running_stock, actions) ==
    IF actions = <<>> THEN TRUE
    ELSE /\ (running_stock * Head(actions)) % 100 = 0
         /\ ExactChain(IF Times(running_stock, Head(actions)) < STOCK_FLOOR THEN STOCK_FLOOR
                       ELSE Times(running_stock, Head(actions)), Tail(actions))
RECURSIVE ExactProduct(_, _)
ExactProduct(multiplier, actions) ==
    IF actions = <<>> THEN TRUE
    ELSE /\ (multiplier * Head(actions)) % 100 = 0
         /\ ExactProduct(Times(multiplier, Head(actions)), Tail(actions))
ExactArgs(current_stock, actions) ==
    /\ ExactChain(current_stock, actions)
    /\ ExactProduct(100, actions)
    /\ (current_stock * ClampMultiplier(FinalMultiplier(actions))) % 100 = 0

\* Stocks of an existing character (10.0 to 1000.0), action multipliers
\* within [0.05, 5.0], and the action lists handed in.
CurrentStockArgs == {1000, 2000, 4000, 10000, 20000, 100000}
ActionMultipliers == {5, 50, 90, 100, 120, 200, 500}
MaxActions == 2
FinalStockArgs ==
    {[fn |-> "final_stock", current_stock |-> st, actions |-> as] :
        st \in CurrentStockArgs,
        as \in UNION {[1..n -> ActionMultipliers] : n \in 1..MaxActions}}

InitFinalStock ==
    /\ characters = <<>>
    /\ character_history = {}
    /\ chapters = [n \in Chapters |-> "absent"]
    /\ market_snapshots = {}
    /\ last_call = NoCall
    /\ ncalls = 0
    /\ progress_file = [exists |-> FALSE, last_successful_chapter |-> 0]
    /\ progress_data = [last_processed_chapter |-> 0, failed_chapters |-> {}]
    /\ proc = Idle
    /\ nattempts = 0
    /\ stock_characters = <<>>
    /\ market_events = <<>>
    /\ processed_chapters = {}
    /\ offline_call = NoOfflineCall
    /\ fn_input \in {a \in FinalStockArgs : ExactArgs(a.current_stock, a.actions)}
    /\ fn_output = NoValue

\* The branch of an existing character whose answer analyze_existing_character
\* accepted: stock_change is the product of the action multipliers.
DataGeneratorFinalStock ==
    /\ fn_input.fn = "final_stock"
    /\ fn_output = NoValue
    /\ LET change == StockChange("/wiki/luffy", FinalMultiplier(fn_input.actions),
                                 fn_input.actions, "existing")
       IN fn_output' = [fn |-> "final_stock",
                        final_stock |-> ReportedFinalStock(fn_input.current_stock,
                                                           change.stock_change),
                        stored_stock |-> StoredFinalStock(fn_input.current_stock, change)]
    /\ UNCHANGED <<store_vars, last_call, ncalls, ctl_vars, offline_vars, fn_input>>

NextFinalStock == DataGeneratorFinalStock
SpecFinalStock == InitFinalStock /\ [][NextFinalStock]_vars

(***************************************************************************)
(* Properties of the store.                                                *)
(***************************************************************************)
\* C1 (fold law): after any sequence of add_character and
\* process_character_changes calls, every character's current_value is its
\* starting value plus the sum of value_change over its history rows.
FoldLaw ==
    \A u \in DOMAIN characters :
        characters[u].current_value =
            characters[u].starting_value + SumValueChange(HistoryOf(character_history, u))

\* C2 (uniqueness): at most one history row per (character, chapter).
HistoryKeyUnique ==
    \A r1, r2 \in character_history :
        (r1.character_wiki_url = r2.character_wiki_url
            /\ r1.chapter_number = r2.chapter_number) => r1 = r2

\* C2 witness: process_character_changes has just applied a change to a
\* (character, chapter) whose history row was already there, so the stored
\* row is not the one this call computed.
SecondApplyHappened ==
    /\ last_call.op = "process_character_changes"
    /\ last_call.result
    /\ \E r \in character_history :
           /\ r.character_wiki_url \in last_call.urls \cap DOMAIN characters
           /\ r.chapter_number = last_call.chapter_number
           /\ r.new_value # characters[r.character_wiki_url].current_value

\* C3 (second apply is rejected): a call of add_character_change or
\* process_character_changes for an existing character and a chapter that
\* already has a history row of that character returns failure and leaves
\* tables characters and character_history as they were.
SecondApplyRejected ==
    [][(/\ ncalls' = ncalls + 1
        /\ last_call'.op \in {"add_character_change", "process_character_changes"}
        /\ \E u \in last_call'.urls \cap DOMAIN characters :
               HasHistoryRow(character_history, u, last_call'.chapter_number))
       => (/\ last_call'.result = FALSE
           /\ characters' = characters
           /\ character_history' = character_history)]_vars

(***************************************************************************)
(* Properties of the controllers.                                          *)
(***************************************************************************)
\* A chapter handler is entered for chapter proc'.current_chapter.
HandlerEntered == nattempts' = nattempts + 1

\* The three tables named by the idempotence and ordering contracts are
\* left as they were.
TablesUnchanged ==
    /\ characters' = characters
    /\ character_history' = character_history
    /\ chapters' = chapters

\* C4: once a chapter is committed, every stored character's current_value
\* is greater than 0 and at most 1000, whatever starting values and value
\* changes the oracle proposed.
CommittedValuesInBounds ==
    proc.outcome = "committed" =>
        \A u \in DOMAIN characters :
            characters[u].current_value > 0 /\ characters[u].current_value <= 1000

\* C5: entering the handler of BatchProcessor, ChapterProcessor or main for a
\* chapter that is marked processed returns success at once, without an
\* oracle call, and leaves characters, character_history and chapters as
\* they were.
ReprocessIsNoOp ==
    [][(/\ HandlerEntered
        /\ proc'.kind \in {"batch", "chapter", "main"}
        /\ IsChapterProcessed(chapters, proc'.current_chapter))
       => (/\ proc'.pc = "returned"
           /\ proc'.success
           /\ ~proc'.oracle_called
           /\ TablesUnchanged)]_vars

\* C6: entering a handler for an unprocessed chapter k other than the highest
\* processed chapter + 1 is refused: it returns failure without an oracle
\* call and changes no table.
OutOfOrderRefused ==
    [][(/\ HandlerEntered
        /\ proc'.kind \in {"batch", "chapter", "main"}
        /\ ~IsChapterProcessed(chapters, proc'.current_chapter)
        /\ proc'.current_chapter # LastProcessedChapter(chapters) + 1)
       => (/\ proc'.pc = "returned"
           /\ ~proc'.success
           /\ ~proc'.oracle_called
           /\ TablesUnchanged)]_vars

\* C7: when BatchProcessor stores the results of chapter n, after a kill and
\* a restart as well, a character whose change of chapter n is already in
\* the history keeps its current_value: no change of chapter n is applied
\* twice.
NoChangeAppliedTwice ==
    [][(proc.kind = "batch" /\ proc.pc = "store" /\ proc'.kind = "batch")
       => \A u \in DOMAIN characters :
              HasHistoryRow(character_history, u, proc.current_chapter)
              => characters'[u].current_value = characters[u].current_value]_vars

\* C8: the step that sets the processed flag of chapter n is taken by the
\* handler of chapter n, and by then every new character it accepted is
\* stored and every accepted change of a stored character has its history
\* row of chapter n.
ProcessedOnlyAfterCommit ==
    [][\A n \in Chapters :
          (chapters[n] # "processed" /\ chapters'[n] = "processed")
          => /\ proc.current_chapter = n
             /\ \A i \in DOMAIN proc.analysis.new_characters :
                   proc.analysis.new_characters[i].wiki_url \in DOMAIN characters
             /\ \A i \in DOMAIN proc.analysis.character_changes :
                   proc.analysis.character_changes[i].wiki_url \in DOMAIN characters
                   => HasHistoryRow(character_history,
                          proc.analysis.character_changes[i].wiki_url, n)]_vars

\* C8 witness: a handler has just marked its chapter processed after
\* storing a value change of that chapter.
MarkedAfterStoredChange ==
    /\ proc.outcome = "committed"
    /\ chapters[proc.current_chapter] = "processed"
    /\ \E r \in character_history :
          /\ r.chapter_number = proc.current_chapter
          /\ r.new_value = characters[r.character_wiki_url].current_value

\* C9: after a failed chapter the run of BatchProcessor, main or
\* generate_real_llm_data is over: it attempts no further chapter.
FailureHaltsRun ==
    [][(/\ proc.kind \in {"batch", "main", "gen"}
        /\ proc.pc = "returned"
        /\ ~proc.success)
       => proc'.kind = "none"]_vars

\* The persisted cursor of BatchProcessor; no progress file, no chapter.
Cursor(file) == IF file.exists THEN file.last_successful_chapter ELSE 0

\* C10: a failed attempt leaves the persisted cursor where it was, and a run
\* started over an existing progress file first attempts the chapter after
\* the last committed one.
ResumeAtNextChapter ==
    [][/\ (proc.kind = "batch" /\ proc.pc = "returned" /\ ~proc.success)
          => Cursor(progress_file') = Cursor(progress_file)
       /\ (proc.kind = "none" /\ proc'.kind = "batch" /\ progress_file.exists)
          => proc'.current_chapter = LastProcessedChapter(chapters) + 1]_vars

\* The history rows of the chapters before chapter n.
HistoryBefore(hist, n) == {r \in hist : r.chapter_number < n}

\* The characters that first appeared before chapter n, each with the value
\* it had after its last change before chapter n.
CharactersBefore(chars, hist, n) ==
    [u \in {x \in DOMAIN chars : chars[x].first_appearance < n} |->
        LET rows == HistoryOf(HistoryBefore(hist, n), u)
        IN [chars[u] EXCEPT !.current_value =
               IF rows = {} THEN chars[u].starting_value
               ELSE (CHOOSE r \in rows :
                        \A y \in rows : y.chapter_number <= r.chapter_number).new_value]]

\* The step in which a handler hands the market context to the oracle.
OracleCalled == ~proc.oracle_called /\ proc'.oracle_called

\* C11 (no lookahead): whenever a handler calls the oracle for chapter n, the
\* market context it reads from the store (top and bottom characters, total,
\* recent changes) is the context of the store as chapters below n left it.
NoLookahead ==
    [][OracleCalled
       => GetCurrentMarketContext(characters, character_history)
              = GetCurrentMarketContext(
                    CharactersBefore(characters, character_history, proc'.current_chapter),
                    HistoryBefore(character_history, proc'.current_chapter))]_vars

(***************************************************************************)
(* Properties of DataGenerator and LLMAnalyzer.                            *)
(***************************************************************************)
\* process_chapter has just stored the stock changes of a chapter.
ChapterStored ==
    /\ offline_call'.calls = offline_call.calls + 1
    /\ offline_call'.returned = "processed"

\* The market events of one character in one chapter, in the order saved.
EventsOf(events, character_id, chapter_id) ==
    SelectSeq(events, LAMBDA e : e.character_id = character_id /\ e.chapter_id = chapter_id)

\* C12: when process_chapter stores the stock change of a character that is
\* in the store, every multiplier it applies was proposed within [0.05, 5.0]:
\* an action list it applies has no multiplier out of range, and a change
\* whose multiplier is out of range records no market event of that chapter
\* (it is not clamped into the range and applied).
OutOfRangeNeverApplied ==
    [][ChapterStored
       => \A i \in DOMAIN offline_call'.stock_changes :
             LET change == offline_call'.stock_changes[i] IN
             CharacterExists(stock_characters, change.character_href)
             => /\ MultipliersInRange(change.actions)
                /\ (change.actions = <<>>
                    /\ (change.stock_change < MinMultiplier
                        \/ change.stock_change > MaxMultiplier))
                   => EventsOf(market_events', change.character_href,
                               offline_call'.chapter_id)
                      = EventsOf(market_events, change.character_href,
                                 offline_call'.chapter_id)]_vars

\* C13: when process_chapter stores the action list of an existing character
\* with stock v before the chapter, the multipliers are applied in list
\* order and exactly one event of that (character, chapter) is recorded,
\* whose change is the final stock minus v.
ChainRecordedOnce ==
    [][ChapterStored
       => \A i \in DOMAIN offline_call'.stock_changes :
             LET change == offline_call'.stock_changes[i]
                 v == CalculateCurrentStock(stock_characters, market_events,
                          change.character_href, offline_call'.chapter_id - 1)
                 recorded == EventsOf(market_events', change.character_href,
                                      offline_call'.chapter_id)
             IN change.tag = "existing"
                => /\ Len(recorded) = 1
                   /\ recorded[1].stock_change = RunningStock(v, change.actions) - v]_vars

\* The sum of stock_change over the first k events of a list.
RECURSIVE SumFirst(_, _)
SumFirst(events, k) ==
    IF k = 0 THEN 0 ELSE events[k].stock_change + SumFirst(events, k - 1)

MaxCharacterValue == 1000

\* C15: a store call creates no character from a proposal whose starting
\* value lies outside [1, 1000]: every character a call of add_character or
\* process_character_changes creates was proposed with a value in range.
InvalidValueRejected ==
    [][\A u \in DOMAIN characters' \ DOMAIN characters :
          /\ characters'[u].starting_value >= 1
          /\ characters'[u].starting_value <= MaxCharacterValue]_vars

\* C16: add_character for a wiki_url that is already stored, or with an
\* empty wiki_url or name, a starting_value <= 0 or a first_appearance <= 0,
\* returns failure and leaves every table as it was.
FailedAddLeavesStore ==
    [][(/\ ncalls' = ncalls + 1
        /\ last_call'.op = "add_character"
        /\ \/ last_call'.urls \cap DOMAIN characters # {}
           \/ "" \in last_call'.urls
           \/ last_call'.name = ""
           \/ last_call'.starting_value <= 0
           \/ last_call'.chapter_number <= 0)
       => (/\ last_call'.result = FALSE
           /\ store_vars' = store_vars)]_vars

\* C16 witness: add_character with valid arguments has just failed for a
\* stored wiki_url, and the stored character keeps the first_appearance it
\* was created with, which is not the one of the call.
DuplicateAddFailed ==
    /\ last_call.op = "add_character"
    /\ ~last_call.result
    /\ last_call.name # ""
    /\ last_call.starting_value > 0
    /\ last_call.chapter_number > 0
    /\ \E u \in last_call.urls \cap DOMAIN characters :
          characters[u].first_appearance # last_call.chapter_number

BatchAtomic ==
    [][(ncalls' = ncalls + 1 /\ last_call'.op = "process_character_changes")
       => IF last_call'.result
          THEN /\ last_call'.new_urls \subseteq DOMAIN characters'
               /\ \A u \in last_call'.urls \cap DOMAIN characters' :
                     \E r \in character_history' :
                        /\ r.character_wiki_url = u
                        /\ r.chapter_number = last_call'.chapter_number
                        /\ r.new_value = characters'[u].current_value
          ELSE /\ characters' = characters
               /\ character_history' = character_history]_vars

(***************************************************************************)
(* Properties of LLMAnalyzer.analyze_chapter.                              *)
(***************************************************************************)
\* Does an answer meet the proposal contract of an existing character (a
\* non-empty action list with every multiplier in [0.05, 5.0]) or of a new
\* one (a stock value in [1, 10000])?
ValidActions(response) ==
    /\ response.kind = "actions"
    /\ response.actions # <<>>
    /\ \A i \in DOMAIN response.actions :
          response.actions[i] >= MinMultiplier /\ response.actions[i] <= MaxMultiplier

ValidStockValue(response) ==
    /\ response.kind = "stock_value"
    /\ response.stock_value >= 1
    /\ response.stock_value <= MaxStockValue

\* The results of the list that are about one character.
ResultsOf(results, character_href) ==
    SelectSeq(results, LAMBDA r : r.character_href = character_href)

\* C19: analyze_chapter returns exactly one result for every character it
\* analyses; when none of the max_retries answers for an existing character
\* is valid the result is the multiplier 1.0 with the single action 1.0, and
\* when none of the answers for a new character is valid the result is the
\* market average.
DefaultOnExhaustion ==
    fn_output.fn = "analyze_chapter" =>
        LET context == fn_input.market_context
            results == fn_output.results
        IN /\ \A i \in DOMAIN context.existing_characters :
                 LET c == context.existing_characters[i].href IN
                 c \in fn_input.keep
                 => /\ Len(ResultsOf(results, c)) = 1
                    /\ (\A k \in 1..max_retries : ~ValidActions(fn_input.responses[c][k]))
                       => /\ ResultsOf(results, c)[1].stock_change = 100
                          /\ ResultsOf(results, c)[1].actions = <<100>>
           /\ \A i \in DOMAIN context.new_characters :
                 LET c == context.new_characters[i].href IN
                 c \in fn_input.keep
                 => /\ Len(ResultsOf(results, c)) = 1
                    /\ (\A k \in 1..max_retries : ~ValidStockValue(fn_input.responses[c][k]))
                       => ResultsOf(results, c)[1].stock_change = context.statistics.average

(***************************************************************************)
(* Properties of the market statistics.                                    *)
(***************************************************************************)
\* The nearest-rank index of the p-th percentile of n sorted values:
\* ceil(p/100 * n) - 1 clamped to [0, n - 1].
NearestRankIndex(p, n) ==
    LET rank == ((p * n + 99) \div 100) - 1
    IN IF rank < 0 THEN 0 ELSE IF rank > n - 1 THEN n - 1 ELSE rank

\* C20: the median and the percentiles calculate_market_dynamics reads off
\* the values sorted ascending are the elements at the nearest-rank indices
\* of p = 50, 90 and 60; the median of 10, 20, ..., 100 is 50.
NearestRankRule ==
    fn_output.fn = "calculate_market_dynamics" =>
        LET sorted_values == Sorted(fn_input.values)
            n == Len(sorted_values)
        IN /\ fn_output.statistics.median_value = sorted_values[NearestRankIndex(50, n) + 1]
           /\ fn_output.statistics.p90 = sorted_values[NearestRankIndex(90, n) + 1]
           /\ fn_output.statistics.p60 = sorted_values[NearestRankIndex(60, n) + 1]
           /\ fn_input.values = Descending(PopulationValues)
              => fn_output.statistics.median_value = 50

(***************************************************************************)
(* Properties of the statistics over the store.                            *)
(***************************************************************************)
\* C21: while table characters is empty, calculate_market_dynamics returns
\* the baseline (average 100, median 100, volatility 0, thresholds 700 and
\* 300) and get_current_market_context returns count 0 with empty top,
\* bottom and recent-change lists, whatever the other tables hold.
EmptyPopulationBaseline ==
    DOMAIN characters = {} =>
        /\ MarketDynamicsOf(characters, character_history)
               = [average_value |-> 10000, median_value |-> 10000, recent_volatility |-> 0,
                  top_tier_threshold |-> 700, mid_tier_threshold |-> 300]
        /\ GetCurrentMarketContext(characters, character_history)
               = [recent_changes |-> {}, top_characters |-> <<>>,
                  bottom_characters |-> <<>>, total_characters |-> 0]

\* C21 witness: no character is stored while the history holds a row (of a
\* wiki_url that was never added), so the recent changes are empty because
\* of the join with characters.
EmptyPopulationWithHistory ==
    /\ DOMAIN characters = {}
    /\ character_history # {}
    /\ last_call.op = "add_character_change"

(***************************************************************************)
(* Properties of CharacterManager.validate_value_change.                   *)
(***************************************************************************)
\* validate_value_change has returned.
Validated == fn_output.fn = "validate_value_change"

\* The current value of the character the validated proposal is about.
ValidatedCurrentValue == fn_input.characters[fn_input.wiki_url].current_value

\* The change limits of the tier of that value.
ValidatedLimits ==
    ChangeLimits[GetCharacterTier(fn_input.tier_thresholds, ValidatedCurrentValue)]

\* C22: for every stored character and proposed change, adjusted_change lies
\* within [-max_decrease, max_increase] of the character's tier and is_valid
\* is true; a proposal beyond the cap comes back with a smaller magnitude.
AdjustedWithinCaps ==
    Validated =>
        /\ fn_output.validation.adjusted_change >= -ValidatedLimits.max_decrease
        /\ fn_output.validation.adjusted_change <= ValidatedLimits.max_increase
        /\ fn_output.validation.is_valid
        /\ (\/ fn_input.proposed_change > ValidatedLimits.max_increase
            \/ fn_input.proposed_change < -ValidatedLimits.max_decrease)
           => Abs(fn_output.validation.adjusted_change) < Abs(fn_input.proposed_change)

\* C23: for a character whose current_value is in [1, 1000],
\* current_value + adjusted_change is in [1, 1000] for every proposed
\* change, reasoning and recent history.
AdjustedValueInBounds ==
    (Validated /\ ValidatedCurrentValue >= 1 /\ ValidatedCurrentValue <= 1000)
    => /\ ValidatedCurrentValue + fn_output.validation.adjusted_change >= 1
       /\ ValidatedCurrentValue + fn_output.validation.adjusted_change <= 1000

\* C23 witness: for the value 970 the capped change 50 was cut to 30 by the
\* bound check and then to 24 by the weak-reasoning factor.
BoundThenDamped ==
    /\ Validated
    /\ ValidatedCurrentValue = 970
    /\ fn_input.proposed_change = 60
    /\ fn_input.reasoning = "appeared"
    /\ fn_input.character_history = {}
    /\ fn_output.validation.adjusted_change = 24

\* The proposed change after the tier cap and the [1, 1000] check.
ValidatedCappedChange ==
    LET capped == IF fn_input.proposed_change > ValidatedLimits.max_increase
                  THEN ValidatedLimits.max_increase
                  ELSE IF fn_input.proposed_change < -ValidatedLimits.max_decrease
                  THEN -ValidatedLimits.max_decrease
                  ELSE fn_input.proposed_change
    IN IF ValidatedCurrentValue + capped < 1 THEN 1 - ValidatedCurrentValue
       ELSE IF ValidatedCurrentValue + capped > 1000 THEN 1000 - ValidatedCurrentValue
       ELSE capped

\* The character's history rows of its two most recent chapters.
TwoMostRecent == RecentActivity(fn_input.character_history, fn_input.wiki_url, 2)

\* C30: for a character with a value in [1, 1000], strong reasoning and no
\* reversal of the last change, the capped change is multiplied by 0.7 exactly when its magnitude exceeds 50
\* and the magnitudes of the changes of the character's two most recent
\* chapters sum to more than 100; otherwise it is returned as it is.
VolatilityDampingRule ==
    (/\ Validated
     /\ ValidatedCurrentValue >= 1
     /\ ValidatedCurrentValue <= 1000
     /\ fn_input.reasoning = "Defeated major opponent"
     /\ fn_input.proposed_change >= 0
     /\ \A r \in fn_input.character_history : r.value_change >= 0)
    => fn_output.validation.adjusted_change =
           IF /\ Abs(ValidatedCappedChange) > 50
              /\ Len(TwoMostRecent) = 2
              /\ Abs(TwoMostRecent[1].value_change) + Abs(TwoMostRecent[2].value_change) > 100
           THEN IntTimes07(ValidatedCappedChange)
           ELSE ValidatedCappedChange

\* The capped change after the volatility check, for a character with at
\* most two history rows.
ValidatedCalmedChange ==
    IF /\ Abs(ValidatedCappedChange) > 50
       /\ Len(TwoMostRecent) = 2
       /\ Abs(TwoMostRecent[1].value_change) + Abs(TwoMostRecent[2].value_change) > 100
    THEN IntTimes07(ValidatedCappedChange)
    ELSE ValidatedCappedChange

\* The most recent recorded change reverses the change x, both larger than 20.
LargeReversal(x) ==
    /\ TwoMostRecent # <<>>
    /\ \/ TwoMostRecent[1].value_change > 20 /\ x < -20
       \/ TwoMostRecent[1].value_change < -20 /\ x > 20

NeverAmplifiedOrReversed ==
    (Validated /\ ValidatedCurrentValue >= 1 /\ ValidatedCurrentValue <= 1000)
    => /\ Abs(fn_output.validation.adjusted_change) <= Abs(fn_input.proposed_change)
       /\ \/ fn_output.validation.adjusted_change = 0
          \/ fn_output.validation.adjusted_change * fn_input.proposed_change > 0

\* C40 witness: the proposal +200 of a character at 970 whose last changes
\* were -60 and -60 was capped to 50, bounded to 30, cut to 24 for the
\* reversal and to 19 for the weak reasoning.
CappedBoundedAndDamped ==
    /\ Validated
    /\ ValidatedCurrentValue = 970
    /\ fn_input.proposed_change = 200
    /\ fn_input.reasoning = "appeared"
    /\ Len(TwoMostRecent) = 2
    /\ TwoMostRecent[1].value_change = -60
    /\ fn_output.validation.adjusted_change = 19

(***************************************************************************)
(* Properties of the history kept by the controllers.                      *)
(***************************************************************************)
\* C24: once a chapter is committed, the new_value of every character's
\* history row with the highest chapter number is the character's
\* current_value.
LatestRowMatchesValue ==
    proc.outcome = "committed" =>
        \A u \in DOMAIN characters :
            \A r \in HistoryOf(character_history, u) :
                (\A y \in HistoryOf(character_history, u) :
                     y.chapter_number <= r.chapter_number)
                => r.new_value = characters[u].current_value

(***************************************************************************)
(* Properties of the tier thresholds.                                      *)
(***************************************************************************)
\* C25: the thresholds update_tier_thresholds derives from the market
\* dynamics of a non-empty population with values in [1, 1000] are strictly
\* ordered: legendary > top_tier > high_tier > mid_tier > low_tier > weak.
ThresholdsStrictlyOrdered ==
    fn_output.fn = "update_tier_thresholds" =>
        LET t == fn_output.tier_thresholds
        IN /\ t.legendary > t.top_tier
           /\ t.top_tier > t.high_tier
           /\ t.high_tier > t.mid_tier
           /\ t.mid_tier > t.low_tier
           /\ t.low_tier > t.weak

(***************************************************************************)
(* Properties of the processed flag and of the history rows.               *)
(***************************************************************************)
\* C26: a chapter that is marked processed stays marked processed in every
\* later step of every controller.
ProcessedIsTerminal ==
    [][\A n \in Chapters :
          IsChapterProcessed(chapters, n) => IsChapterProcessed(chapters', n)]_vars

ProposalsStored ==
    /\ proc.pc = "store"
    /\ proc'.kind = proc.kind
    /\ proc'.pc \in {"add_chapter", "maintain"}

\* C28: no proposal is dropped: when a controller stores the oracle's result,
\* every proposed new character with a starting value in 1..1000 exists
\* afterwards with that starting value and the chapter as first appearance,
\* and every proposed change of an existing character has a history row for
\* the chapter.
NoProposalDropped ==
    [][ProposalsStored =>
           /\ \A i \in DOMAIN proc.analysis.new_characters :
                  LET n == proc.analysis.new_characters[i]
                  IN (n.starting_value >= 1 /\ n.starting_value <= MaxCharacterValue
                          /\ n.wiki_url \notin DOMAIN characters)
                         => /\ n.wiki_url \in DOMAIN characters'
                            /\ characters'[n.wiki_url].starting_value = n.starting_value
                            /\ characters'[n.wiki_url].first_appearance
                                   = proc.current_chapter
           /\ \A i \in DOMAIN proc.analysis.character_changes :
                  LET c == proc.analysis.character_changes[i]
                  IN c.wiki_url \in DOMAIN characters
                         => HasHistoryRow(character_history', c.wiki_url,
                                          proc.current_chapter)]_vars

(***************************************************************************)
(* Properties of identify_character_duplicates.                            *)
(***************************************************************************)
\* The positions of the candidates with the given wiki_url.
CandidatesAt(wiki_url) ==
    {i \in DOMAIN fn_input.character_list : fn_input.character_list[i].wiki_url = wiki_url}

Transient(kind) == kind \in {"timeout", "request_error"}

\* The call makes at most 3 fetches, every fetch but the last met a
\* transient error, the waits between fetches are 2 s then 4 s, and a call
\* that has returned after 3 transient errors or after a non-transient
\* error has returned None.
ScrapeBounded ==
    fn_output.fn = "scrape_chapter_page" =>
        /\ Len(fn_output.fetches) <= scrape_max_retries
        /\ \A i \in 1..(Len(fn_output.fetches) - 1) : Transient(fn_output.fetches[i])
        /\ fn_output.waits \in {<<>>, <<2>>, <<2, 4>>}
        /\ fn_output.pc = "loop" =>
               /\ Len(fn_output.waits) = Len(fn_output.fetches)
               /\ \A i \in DOMAIN fn_output.fetches : Transient(fn_output.fetches[i])
        /\ fn_output.pc = "returned" =>
               /\ Len(fn_output.fetches) >= 1
               /\ Len(fn_output.waits) = Len(fn_output.fetches) - 1
               /\ Transient(fn_output.fetches[Len(fn_output.fetches)])
                      => (Len(fn_output.fetches) = scrape_max_retries
                              /\ fn_output.result = "None")
               /\ fn_output.fetches[Len(fn_output.fetches)] = "unexpected"
                      => fn_output.result = "None"
               /\ fn_output.fetches[Len(fn_output.fetches)] = "no_chapter_number"
                      => fn_output.result = "None"
               /\ fn_output.fetches[Len(fn_output.fetches)] = "page"
                      => fn_output.result = "chapter_data"

\* C32: scrape_chapter_page always terminates, within the bounds above.
ScrapeTerminates ==
    /\ []ScrapeBounded
    /\ <>(fn_output.fn = "scrape_chapter_page" /\ fn_output.pc = "returned")

\* C32 witness: the call has returned None after three fetches that met a
\* timeout or a request error, having waited 2 s and 4 s.
ScrapeExhausted ==
    /\ fn_output.fn = "scrape_chapter_page"
    /\ fn_output.pc = "returned"
    /\ fn_output.result = "None"
    /\ Len(fn_output.fetches) = 3
    /\ fn_output.waits = <<2, 4>>

(***************************************************************************)
(* Properties of the content a chapter is committed with.                  *)
(***************************************************************************)
\* C33: a chapter becomes processed only in a handler that holds chapter
\* data returned by the crawler, with a summary of at least 50 characters
\* and at least one character.
CommittedOnlyWithContent ==
    [][\A n \in Chapters :
          (~IsChapterProcessed(chapters, n) /\ IsChapterProcessed(chapters', n))
              => /\ proc.chapter_data.scraped
                 /\ proc.chapter_data.summary_length >= 50
                 /\ proc.chapter_data.ncharacters >= 1]_vars

(***************************************************************************)
(* Properties of references to characters.                                 *)
(***************************************************************************)
\* The characters a store call refers to that are neither stored nor listed
\* as new by the call.
UnknownReferences ==
    {u \in last_call'.urls : u \notin DOMAIN characters /\
        (last_call'.op = "process_character_changes" => u \notin last_call'.new_urls)}

\* C34: a process_character_changes or add_character_change call with a
\* value change of a character that is not in the store returns False and
\* creates neither the character nor a history row for it.
UnknownReferenceRejected ==
    [][(/\ ncalls' = ncalls + 1
        /\ last_call'.op \in {"process_character_changes", "add_character_change"}
        /\ UnknownReferences # {})
       => /\ ~last_call'.result
          /\ \A u \in UnknownReferences :
                 /\ u \notin DOMAIN characters'
                 /\ \A r \in character_history' \ character_history :
                        r.character_wiki_url # u]_vars

\* DatabaseManager.validate_database_integrity()['foreign_key_constraints']:
\* PRAGMA foreign_key_check finds no history row without its character.
ForeignKeyConstraints(chars, hist) ==
    \A r \in hist : r.character_wiki_url \in DOMAIN chars

\* C39: every character_history row refers to a stored character, after any
\* add_character, add_character_change and process_character_changes calls.
ReferentialIntegrity == ForeignKeyConstraints(characters, character_history)

(***************************************************************************)
(* Properties of the progress cursors.                                     *)
(***************************************************************************)
\* C35: a chapter in failed_chapters of the progress file of main.py is
\* never reported as already processed by should_skip_chapter.
FailedChapterNotSkipped ==
    \A n \in progress_data.failed_chapters : ~ShouldSkipChapter(progress_data, n)

\* C36: the processed chapters have no gaps: every chapter between two
\* processed chapters is processed.
ProcessedWithoutGaps ==
    \A m, n \in Chapters :
        (IsChapterProcessed(chapters, m) /\ IsChapterProcessed(chapters, n))
            => \A k \in Chapters : (m < k /\ k < n) => IsChapterProcessed(chapters, k)

\* C37: last_successful_chapter of the progress file of BatchProcessor is at
\* most the highest chapter marked processed in the store.
CursorNotAheadOfStore ==
    progress_file.exists
        => progress_file.last_successful_chapter <= LastProcessedChapter(chapters)

(***************************************************************************)
(* Properties of the final stock of DataGenerator.process_chapter.         *)
(***************************************************************************)
\* C38: for an existing character and actions with multipliers in
\* [0.05, 5.0], the final stock process_chapter logs equals the stock its
\* market events add up to.
ReportedStockIsStoredStock ==
    fn_output.fn = "final_stock" => fn_output.final_stock = fn_output.stored_stock

====
